---- MODULE Spec2Model ----
(***************************************************************************)
(* Movie catalogue and review application (movie_app): the relational      *)
(* state (user, movie, review, user_favorites), the rating aggregation of  *)
(* Movie.update_rating, the favourites methods of User, and the request    *)
(* handlers of app.py that insert and delete reviews and favourites.       *)
(*                                                                         *)
(* The store is SQLite (app.py:12).  A request reads in autocommit mode    *)
(* until its first INSERT/UPDATE/DELETE; from that flush to the commit it  *)
(* holds the database write lock.  A handler is therefore modelled as a    *)
(* read part (X_read: what the request has seen before its first flush)    *)
(* and a write part (X_finish: flush, recomputation, commit, response).    *)
(* Sequential specifications run both parts in one step; the interleaved   *)
(* specifications run them as two steps of a request slot.                 *)
(*                                                                         *)
(* Ratings of movies are kept in tenths (43 is 4.3).                       *)
(***************************************************************************)
EXTENDS Integers, FiniteSets, Sequences, Bags, TLC

\* ---------------------------------------------------------------- bounds

\* Largest user id: the two seeded users and two registered users.
MaxUserId == 4

\* Largest movie id a request may name (seeded, created later, or absent).
MaxMovieId == 2

\* Largest number of rows of the review table.
MaxReviews == 3

\* Movies and reviews seeded by init_db (the source seeds 30 and 10).
NSeedMovies == 1

NSeedReviews == 1

\* Number of request slots that may be in flight together.
NProcs == 2

\* Reviews of one movie when its rating is computed.
MaxCount == 20

\* ------------------------------------------------------------ input sets

Anonymous == 0

UserIds == 1..MaxUserId

MovieIds == 1..MaxMovieId

Procs == 1..NProcs

Principals == {Anonymous} \cup UserIds

\* Ratings a request may submit: below range, in range, above range.
RatingInputs == {0, 3, 5, 6}

\* A review submission: its content field (absent, shorter than 10
\* characters, or at least 10 characters) and its rating.
ContentInputs == {"missing", "short", "ok"}

ReviewInputs ==
    {<<c, 5>> : c \in ContentInputs} \cup {<<"ok", r>> : r \in RatingInputs}

Usernames == {"user", "guest"}

\* An absent title argument, or an empty title field.
NoTitle == ""

\* An absent year argument, or an empty year field.
NoYear == 0

\* The title and year of a movie submission: one field absent, a year before
\* 1900, and two well-formed submissions.
MovieInputs ==
    {<<NoTitle, 1979>>, <<"Alien", NoYear>>, <<"Alien", 1899>>,
     <<"Alien", 1979>>, <<"Heat", 1995>>}

\* Password lengths and confirmation of a registration form.
PasswordLens == {5, 6}

VARIABLES
    users,           \* table user: id -> [username, is_admin, password_hash]
    movies,          \* table movie: id -> [title, year, rating]
    reviews,         \* table review: bag of rows [user_id, movie_id, rating]
    user_favorites,  \* table user_favorites: <<user_id, movie_id>> -> number of rows
    req,             \* request slot -> what the request in flight has read
    resp,            \* response of the request that finished last
    call             \* last call of a favourites method and its return value

vars == <<users, movies, reviews, user_favorites, req, resp, call>>

db == <<users, movies, reviews, user_favorites>>

Idle == [op |-> "idle"]

NoCall == [fn |-> "none", ret |-> FALSE, raised |-> FALSE]

\* The JSON document of a response that has none.
NoData == << >>

\* A response: the handler, the status, the kind of body, the category of the
\* flashed message, and the JSON document.
ResponseWith(op, status, body, flash, data) ==
    [op |-> op, status |-> status, body |-> body, flash |-> flash, data |-> data]

Response(op, status, body, flash) == ResponseWith(op, status, body, flash, NoData)

\* A response that leaves the database as it was.
Reply(r) == resp' = r /\ UNCHANGED <<users, movies, reviews, user_favorites, call>>

\* ------------------------------------------------------------- the store

\* A row of the review table.  The primary key Review.id only names the row
\* (ReviewAPI.delete); the table is a bag of rows, a request names a row by
\* the row itself.
Row(u, m, r) == [user_id |-> u, movie_id |-> m, rating |-> r]

\* The review id of a request that names no row of the table.
NoRow == Row(0, 0, 0)

RECURSIVE SumRatings(_)
SumRatings(rs) ==
    IF BagToSet(rs) = {} THEN 0
    ELSE LET r == CHOOSE x \in BagToSet(rs) : TRUE
         IN r.rating + SumRatings(rs (-) SetToBag({r}))

Max(S) == CHOOSE x \in S : \A y \in S : y <= x

\* SQLite INTEGER PRIMARY KEY: the largest id in the table plus one.
NextId(ids) == IF ids = {} THEN 1 ELSE Max(ids) + 1

\* Movie.reviews: the rows of the movie.
ReviewsOf(rs, m) ==
    [r \in {x \in BagToSet(rs) : x.movie_id = m} |-> CopiesIn(r, rs)]

\* INSERT INTO review without the unique constraint.
ReviewInsertOK_nounique(rs, row) == row.rating >= 1 /\ row.rating <= 5

\* INSERT INTO review: the check constraint and the unique constraint.
\* SQLite does not enforce the foreign keys.
ReviewInsertOK(rs, row) ==
    /\ row.rating >= 1 /\ row.rating <= 5
    /\ ~\E r \in BagToSet(rs) : r.user_id = row.user_id /\ r.movie_id = row.movie_id

\* INSERT INTO user_favorites: the composite primary key.
FavoriteInsertOK(fav, u, m) == fav[<<u, m>>] = 0

\* Python round(x, 1) of the double x = total / n that func.avg returns, in
\* tenths.  round() rounds the exact value of the double to the nearest
\* tenth, ties to even.  A mean halfway between two tenths is k/20 with k odd;
\* it is a double only when it is a multiple of 1/4 (5 divides k).  Otherwise
\* x is the double nearest to k/20, below or above it, and round() follows x:
\* with 53 bits, x = round(k * 2^e / 5) / 2^e (e = 50, 49, 48 for means in
\* [1,2), [2,4), [4,8)), and 2^50, 2^49, 2^48 are 4, 2, 1 modulo 5.
Round1(total, n) ==
    LET q == (10 * total) \div n
        rem == (10 * total) % n
        k == 2 * q + 1
        scale == IF total < 2 * n THEN 4 ELSE IF total < 4 * n THEN 2 ELSE 1
    IN  IF 2 * rem < n THEN q
        ELSE IF 2 * rem > n THEN q + 1
        ELSE IF k % 5 = 0 THEN (IF q % 2 = 0 THEN q ELSE q + 1)
        ELSE IF ((k % 5) * scale) % 5 >= 3 THEN q + 1 ELSE q

\* update_rating that cuts the mean off after the first decimal.
update_rating_truncated(rs, m) ==
    IF BagCardinality(ReviewsOf(rs, m)) > 0
    THEN (10 * SumRatings(ReviewsOf(rs, m))) \div BagCardinality(ReviewsOf(rs, m))
    ELSE 0

\* update_rating whose average is not filtered by the movie.
update_rating_unfiltered(rs, m) ==
    IF BagCardinality(ReviewsOf(rs, m)) > 0
    THEN Round1(SumRatings(rs), BagCardinality(rs))
    ELSE 0

\* Movie.update_rating: the value it assigns to self.rating.
update_rating(rs, m) ==
    IF BagCardinality(ReviewsOf(rs, m)) > 0
    THEN Round1(SumRatings(ReviewsOf(rs, m)), BagCardinality(ReviewsOf(rs, m)))
    ELSE 0

\* The UPDATE of movie.rating at commit: the unit of work writes the column
\* only when the assigned value differs from the value the object was loaded
\* with.
StoreRating(ms, m, loaded, value) ==
    IF value = loaded THEN ms ELSE [ms EXCEPT ![m].rating = value]

\* The UPDATE of user.is_admin at commit, likewise.
StoreRole(us, u, loaded, value) ==
    IF value = loaded THEN us ELSE [us EXCEPT ![u].is_admin = value]

\* ------------------------------------------------------------------ init

SeedRating(i) == IF i \in {6, 9} THEN 4 ELSE 5

SeedReviews ==
    SetToBag({Row(IF i % 2 = 1 THEN 1 ELSE 2, i, SeedRating(i)) :
                i \in (1..NSeedReviews) \cap (1..NSeedMovies)})

SeedTitle(i) == IF i = 1 THEN "Interstellar" ELSE "The Godfather"

SeedYear(i) == IF i = 1 THEN 2014 ELSE 1972

\* A row of the movie table; rating has the column default 0.0.
NewMovie(title, year) == [title |-> title, year |-> year, rating |-> 0]

SeedMovies ==
    [m \in 1..NSeedMovies |->
        [NewMovie(SeedTitle(m), SeedYear(m)) EXCEPT !.rating = update_rating(SeedReviews, m)]]

\* werkzeug generate_password_hash: a digest of the password, here of a
\* password of the given length.
generate_password_hash(pwlen) == <<"pbkdf2", pwlen>>

SeedUsers ==
    (1 :> [username |-> "admin", is_admin |-> TRUE,
           password_hash |-> generate_password_hash(8)]) @@
    (2 :> [username |-> "user", is_admin |-> FALSE,
           password_hash |-> generate_password_hash(7)])

\* The database after init_db() on a fresh file.
Init ==
    /\ users = SeedUsers
    /\ movies = SeedMovies
    /\ reviews = SeedReviews
    /\ user_favorites = [p \in UserIds \X MovieIds |-> 0]
    /\ req = [p \in Procs |-> Idle]
    /\ resp = Response("none", 0, "none", "none")
    /\ call = NoCall

\* The role of the user as it was when the database was seeded.
current_user_is_admin_at_start(us, u) ==
    IF u \in DOMAIN SeedUsers THEN SeedUsers[u].is_admin ELSE FALSE

\* current_user.is_admin: load_user fetches the row of the user in every
\* request; nobody has no role.
current_user_is_admin(us, u) == IF u \in DOMAIN us THEN us[u].is_admin ELSE FALSE

\* A principal a request can carry: nobody, or a user that exists.
IsPrincipal(u) == u = Anonymous \/ u \in DOMAIN users

\* ------------------------------------------------------- review handlers

ReviewListAPI_post_read(u, m, content, rating) ==
    [op |-> "ReviewListAPI_post", user |-> u, movie |-> m,
     content |-> content, rating |-> rating,
     existing |-> \E r \in BagToSet(reviews) : r.movie_id = m /\ r.user_id = u]

ReviewListAPI_post_finish(rec) ==
    LET row == Row(rec.user, rec.movie, rec.rating)
        rs == reviews (+) SetToBag({row})
    IN
    IF rec.user = Anonymous
    THEN Reply(Response(rec.op, 302, "redirect_login", "none"))
    ELSE IF rec.content = "missing"
    THEN Reply(Response(rec.op, 400, "message", "none"))
    ELSE IF rec.existing
    THEN Reply(Response(rec.op, 400, "error", "none"))
    ELSE IF ~ReviewInsertOK(reviews, row)
    THEN Reply(Response(rec.op, 500, "message", "none"))
    ELSE /\ BagCardinality(reviews) < MaxReviews
         /\ reviews' = rs
         /\ movies' = IF rec.movie \in DOMAIN movies
                      THEN StoreRating(movies, rec.movie, movies[rec.movie].rating,
                                       update_rating(rs, rec.movie))
                      ELSE movies
         /\ resp' = Response(rec.op, 201, "object", "none")
         /\ UNCHANGED <<users, user_favorites, call>>

ReviewAPI_delete_read(u, row) ==
    [op |-> "ReviewAPI_delete", user |-> u, review |-> row,
     found |-> BagIn(row, reviews),
     is_admin |-> current_user_is_admin(users, u)]

\* DELETE FROM review WHERE id = ?
DeleteReview(rs, row) == IF BagIn(row, rs) THEN rs (-) SetToBag({row}) ELSE rs

\* ReviewAPI.delete that does not call update_rating.
ReviewAPI_delete_finish_stale(rec) ==
    IF rec.user = Anonymous
    THEN Reply(Response(rec.op, 302, "redirect_login", "none"))
    ELSE IF ~rec.found
    THEN Reply(Response(rec.op, 404, "message", "none"))
    ELSE IF rec.review.user_id # rec.user /\ ~rec.is_admin
    THEN Reply(Response(rec.op, 403, "error", "none"))
    ELSE /\ reviews' = DeleteReview(reviews, rec.review)
         /\ resp' = Response(rec.op, 200, "message", "none")
         /\ UNCHANGED <<users, movies, user_favorites, call>>

\* ReviewAPI.delete that does not compare the author with the user.
ReviewAPI_delete_finish_anyone(rec) ==
    LET rs == DeleteReview(reviews, rec.review)
        m == rec.review.movie_id
    IN
    IF rec.user = Anonymous
    THEN Reply(Response(rec.op, 302, "redirect_login", "none"))
    ELSE IF ~rec.found
    THEN Reply(Response(rec.op, 404, "message", "none"))
    ELSE /\ reviews' = rs
         /\ movies' = IF m \in DOMAIN movies
                      THEN StoreRating(movies, m, movies[m].rating, update_rating(rs, m))
                      ELSE movies
         /\ resp' = Response(rec.op, 200, "message", "none")
         /\ UNCHANGED <<users, user_favorites, call>>

\* The row is deleted, then the rating of its movie is recomputed.
ReviewAPI_delete_finish(rec) ==
    LET rs == DeleteReview(reviews, rec.review)
        m == rec.review.movie_id
    IN
    IF rec.user = Anonymous
    THEN Reply(Response(rec.op, 302, "redirect_login", "none"))
    ELSE IF ~rec.found
    THEN Reply(Response(rec.op, 404, "message", "none"))
    ELSE IF rec.review.user_id # rec.user /\ ~rec.is_admin
    THEN Reply(Response(rec.op, 403, "error", "none"))
    ELSE /\ reviews' = rs
         /\ movies' = IF m \in DOMAIN movies
                      THEN StoreRating(movies, m, movies[m].rating, update_rating(rs, m))
                      ELSE movies
         /\ resp' = Response(rec.op, 200, "message", "none")
         /\ UNCHANGED <<users, user_favorites, call>>

\* POST /movie/<id>: the review form of the movie page.
movie_detail_read(u, m, content, rating) ==
    [op |-> "movie_detail", user |-> u, movie |-> m,
     content |-> content, rating |-> rating,
     found |-> m \in DOMAIN movies,
     loaded |-> IF m \in DOMAIN movies THEN movies[m].rating ELSE 0]

\* movie_detail that does not ask whether the user is logged in.
movie_detail_finish_anyone(rec) ==
    LET row == Row(rec.user, rec.movie, rec.rating)
        rs == reviews (+) SetToBag({row})
    IN
    IF ~rec.found
    THEN Reply(Response(rec.op, 404, "page", "none"))
    ELSE IF rec.content # "ok" \/ rec.rating < 1 \/ rec.rating > 5
    THEN Reply(Response(rec.op, 200, "page", "none"))
    ELSE IF ~ReviewInsertOK(reviews, row)
    THEN Reply(Response(rec.op, 500, "page", "none"))
    ELSE /\ BagCardinality(reviews) < MaxReviews
         /\ reviews' = rs
         /\ movies' = IF rec.movie \in DOMAIN movies
                      THEN StoreRating(movies, rec.movie, rec.loaded,
                                       update_rating(rs, rec.movie))
                      ELSE movies
         /\ resp' = Response(rec.op, 302, "redirect_movie", "success")
         /\ UNCHANGED <<users, user_favorites, call>>

movie_detail_finish(rec) ==
    LET row == Row(rec.user, rec.movie, rec.rating)
        rs == reviews (+) SetToBag({row})
    IN
    IF ~rec.found
    THEN Reply(Response(rec.op, 404, "page", "none"))
    ELSE IF rec.content # "ok" \/ rec.rating < 1 \/ rec.rating > 5
    THEN Reply(Response(rec.op, 200, "page", "none"))
    ELSE IF rec.user = Anonymous
    THEN Reply(Response(rec.op, 302, "redirect_login", "warning"))
    ELSE IF ~ReviewInsertOK(reviews, row)
    THEN Reply(Response(rec.op, 500, "page", "none"))
    ELSE /\ BagCardinality(reviews) < MaxReviews
         /\ reviews' = rs
         /\ movies' = IF rec.movie \in DOMAIN movies
                      THEN StoreRating(movies, rec.movie, rec.loaded,
                                       update_rating(rs, rec.movie))
                      ELSE movies
         /\ resp' = Response(rec.op, 302, "redirect_movie", "success")
         /\ UNCHANGED <<users, user_favorites, call>>

\* ------------------------------------------------------ favourites methods

\* User.is_favorite: the count of the user's rows for the movie is positive.
is_favorite(fav, u, m) == fav[<<u, m>>] > 0

\* add_favorite that appends without asking is_favorite.
add_favorite_unchecked(fav, u, m) == [ret |-> TRUE, insert |-> {<<u, m>>}, delete |-> {}]

\* remove_favorite that removes without asking is_favorite.
remove_favorite_unchecked(fav, u, m) == [ret |-> TRUE, insert |-> {}, delete |-> {<<u, m>>}]

\* User.add_favorite on the rows the session sees: the return value and the
\* rows the session will insert at its next flush.
add_favorite(fav, u, m) ==
    IF ~is_favorite(fav, u, m)
    THEN [ret |-> TRUE, insert |-> {<<u, m>>}, delete |-> {}]
    ELSE [ret |-> FALSE, insert |-> {}, delete |-> {}]

\* User.remove_favorite, likewise.
remove_favorite(fav, u, m) ==
    IF is_favorite(fav, u, m)
    THEN [ret |-> TRUE, insert |-> {}, delete |-> {<<u, m>>}]
    ELSE [ret |-> FALSE, insert |-> {}, delete |-> {}]

\* Movie.favorite_count: the rows of user_favorites of the movie whose user
\* exists (favorited_by joins the user table).
RECURSIVE SumRows(_, _, _)
SumRows(fav, us, m) ==
    IF us = {} THEN 0
    ELSE LET u == CHOOSE x \in us : TRUE
         IN fav[<<u, m>>] + SumRows(fav, us \ {u}, m)

favorite_count(fav, us, m) == SumRows(fav, us, m)

\* The flush of the pending favourites rows succeeds: no INSERT meets an
\* existing key, every DELETE matches exactly one row.
FlushOK(fav, pending) ==
    /\ \A k \in pending.insert : FavoriteInsertOK(fav, k[1], k[2])
    /\ \A k \in pending.delete : fav[k] = 1

Flush(fav, pending) ==
    [k \in DOMAIN fav |->
        IF k \in pending.insert THEN fav[k] + 1
        ELSE IF k \in pending.delete THEN 0
        ELSE fav[k]]

\* ---------------------------------------------------- favourites handlers

\* FavoriteAPI.post with Movie.query.get in place of get_or_404.
FavoriteAPI_post_read_unchecked(u, m) ==
    [op |-> "FavoriteAPI_post", user |-> u, movie |-> m, found |-> TRUE,
     is_favorite |-> u # Anonymous /\ is_favorite(user_favorites, u, m),
     done |-> IF u # Anonymous THEN add_favorite(user_favorites, u, m)
              ELSE [ret |-> FALSE, insert |-> {}, delete |-> {}]]

FavoriteAPI_post_read(u, m) ==
    LET found == m \in DOMAIN movies
        known == u # Anonymous /\ found
    IN  [op |-> "FavoriteAPI_post", user |-> u, movie |-> m, found |-> found,
         is_favorite |-> known /\ is_favorite(user_favorites, u, m),
         done |-> IF known THEN add_favorite(user_favorites, u, m)
                  ELSE [ret |-> FALSE, insert |-> {}, delete |-> {}]]

\* FavoriteAPI.post that does not ask whether the movie is a favourite already.
FavoriteAPI_post_finish_unchecked(rec) ==
    IF rec.user = Anonymous
    THEN Reply(Response(rec.op, 302, "redirect_login", "none"))
    ELSE IF ~rec.found
    THEN Reply(Response(rec.op, 404, "message", "none"))
    ELSE IF ~FlushOK(user_favorites, rec.done)
    THEN /\ resp' = Response(rec.op, 500, "message", "none")
         /\ call' = [fn |-> "add_favorite", ret |-> rec.done.ret, raised |-> TRUE]
         /\ UNCHANGED db
    ELSE /\ user_favorites' = Flush(user_favorites, rec.done)
         /\ resp' = ResponseWith(rec.op, 201, "object", "none",
                [is_favorite |-> TRUE,
                 favorite_count |-> favorite_count(Flush(user_favorites, rec.done),
                                                   DOMAIN users, rec.movie)])
         /\ call' = [fn |-> "add_favorite", ret |-> rec.done.ret, raised |-> FALSE]
         /\ UNCHANGED <<users, movies, reviews>>

FavoriteAPI_post_finish(rec) ==
    IF rec.user = Anonymous
    THEN Reply(Response(rec.op, 302, "redirect_login", "none"))
    ELSE IF ~rec.found
    THEN Reply(Response(rec.op, 404, "message", "none"))
    ELSE IF rec.is_favorite
    THEN Reply(Response(rec.op, 400, "error", "none"))
    ELSE IF ~FlushOK(user_favorites, rec.done)
    THEN /\ resp' = Response(rec.op, 500, "message", "none")
         /\ call' = [fn |-> "add_favorite", ret |-> rec.done.ret, raised |-> TRUE]
         /\ UNCHANGED db
    ELSE /\ user_favorites' = Flush(user_favorites, rec.done)
         /\ resp' = ResponseWith(rec.op, 201, "object", "none",
                [is_favorite |-> TRUE,
                 favorite_count |-> favorite_count(Flush(user_favorites, rec.done),
                                                   DOMAIN users, rec.movie)])
         /\ call' = [fn |-> "add_favorite", ret |-> rec.done.ret, raised |-> FALSE]
         /\ UNCHANGED <<users, movies, reviews>>

FavoriteAPI_delete_read(u, m) ==
    LET found == m \in DOMAIN movies
        known == u # Anonymous /\ found
    IN  [op |-> "FavoriteAPI_delete", user |-> u, movie |-> m, found |-> found,
         is_favorite |-> known /\ is_favorite(user_favorites, u, m),
         done |-> IF known THEN remove_favorite(user_favorites, u, m)
                  ELSE [ret |-> FALSE, insert |-> {}, delete |-> {}]]

\* FavoriteAPI.delete that never commits the removal.
FavoriteAPI_delete_finish_uncommitted(rec) ==
    IF rec.user = Anonymous
    THEN Reply(Response(rec.op, 302, "redirect_login", "none"))
    ELSE IF ~rec.found
    THEN Reply(Response(rec.op, 404, "message", "none"))
    ELSE IF ~rec.is_favorite
    THEN Reply(Response(rec.op, 400, "error", "none"))
    ELSE /\ resp' = ResponseWith(rec.op, 200, "object", "none",
                [is_favorite |-> FALSE,
                 favorite_count |-> favorite_count(user_favorites, DOMAIN users, rec.movie)])
         /\ call' = [fn |-> "remove_favorite", ret |-> rec.done.ret, raised |-> FALSE]
         /\ UNCHANGED db

FavoriteAPI_delete_finish(rec) ==
    IF rec.user = Anonymous
    THEN Reply(Response(rec.op, 302, "redirect_login", "none"))
    ELSE IF ~rec.found
    THEN Reply(Response(rec.op, 404, "message", "none"))
    ELSE IF ~rec.is_favorite
    THEN Reply(Response(rec.op, 400, "error", "none"))
    ELSE IF ~FlushOK(user_favorites, rec.done)
    THEN /\ resp' = Response(rec.op, 500, "message", "none")
         /\ call' = [fn |-> "remove_favorite", ret |-> rec.done.ret, raised |-> TRUE]
         /\ UNCHANGED db
    ELSE /\ user_favorites' = Flush(user_favorites, rec.done)
         /\ resp' = ResponseWith(rec.op, 200, "object", "none",
                [is_favorite |-> FALSE,
                 favorite_count |-> favorite_count(Flush(user_favorites, rec.done),
                                                   DOMAIN users, rec.movie)])
         /\ call' = [fn |-> "remove_favorite", ret |-> rec.done.ret, raised |-> FALSE]
         /\ UNCHANGED <<users, movies, reviews>>

\* toggle_favorite that adds whatever is_favorite answers.
toggle_favorite_read_adding(u, m) ==
    LET found == m \in DOMAIN movies
        known == u # Anonymous /\ found
    IN  [op |-> "toggle_favorite", user |-> u, movie |-> m, found |-> found,
         is_favorite |-> FALSE,
         done |-> IF ~known THEN [ret |-> FALSE, insert |-> {}, delete |-> {}]
                  ELSE add_favorite(user_favorites, u, m)]

\* POST /movie/<id>/favorite
toggle_favorite_read(u, m) ==
    LET found == m \in DOMAIN movies
        known == u # Anonymous /\ found
        fav == known /\ is_favorite(user_favorites, u, m)
    IN  [op |-> "toggle_favorite", user |-> u, movie |-> m, found |-> found,
         is_favorite |-> fav,
         done |-> IF ~known THEN [ret |-> FALSE, insert |-> {}, delete |-> {}]
                  ELSE IF fav THEN remove_favorite(user_favorites, u, m)
                  ELSE add_favorite(user_favorites, u, m)]

toggle_favorite_finish(rec) ==
    LET fn == IF rec.is_favorite THEN "remove_favorite" ELSE "add_favorite"
    IN
    IF rec.user = Anonymous
    THEN Reply(Response(rec.op, 302, "redirect_login", "none"))
    ELSE IF ~rec.found
    THEN Reply(Response(rec.op, 404, "page", "none"))
    ELSE IF ~FlushOK(user_favorites, rec.done)
    THEN /\ resp' = Response(rec.op, 302, "redirect_movie", "danger")
         /\ call' = [fn |-> fn, ret |-> rec.done.ret, raised |-> TRUE]
         /\ UNCHANGED db
    ELSE /\ user_favorites' = Flush(user_favorites, rec.done)
         /\ resp' = Response(rec.op, 302, "redirect_movie", "success")
         /\ call' = [fn |-> fn, ret |-> rec.done.ret, raised |-> FALSE]
         /\ UNCHANGED <<users, movies, reviews>>

\* ------------------------------------------------- users and the catalogue

\* POST /register
register_read(u, name, pwlen, confirmed) ==
    [op |-> "register", user |-> u, username |-> name, pwlen |-> pwlen,
     confirmed |-> confirmed,
     existing_user |-> \E i \in DOMAIN users : users[i].username = name]

\* register on a user table without the unique constraint on username.
register_finish_nounique(rec) ==
    LET id == NextId(DOMAIN users)
    IN
    IF rec.user # Anonymous
    THEN Reply(Response(rec.op, 302, "redirect_index", "none"))
    ELSE IF rec.pwlen < 6 \/ ~rec.confirmed
    THEN Reply(Response(rec.op, 200, "page", "none"))
    ELSE IF rec.existing_user
    THEN Reply(Response(rec.op, 302, "redirect_register", "danger"))
    ELSE /\ id <= MaxUserId
         /\ users' = users @@ (id :> [username |-> rec.username, is_admin |-> FALSE,
                                      password_hash |-> generate_password_hash(rec.pwlen)])
         /\ resp' = Response(rec.op, 302, "redirect_login", "success")
         /\ UNCHANGED <<movies, reviews, user_favorites, call>>

register_finish(rec) ==
    LET id == NextId(DOMAIN users)
    IN
    IF rec.user # Anonymous
    THEN Reply(Response(rec.op, 302, "redirect_index", "none"))
    ELSE IF rec.pwlen < 6 \/ ~rec.confirmed
    THEN Reply(Response(rec.op, 200, "page", "none"))
    ELSE IF rec.existing_user
    THEN Reply(Response(rec.op, 302, "redirect_register", "danger"))
    ELSE IF \E i \in DOMAIN users : users[i].username = rec.username
    THEN Reply(Response(rec.op, 500, "page", "none"))
    ELSE /\ id <= MaxUserId
         /\ users' = users @@ (id :> [username |-> rec.username, is_admin |-> FALSE,
                                      password_hash |-> generate_password_hash(rec.pwlen)])
         /\ resp' = Response(rec.op, 302, "redirect_login", "success")
         /\ UNCHANGED <<movies, reviews, user_favorites, call>>

\* movie_parser.parse_args(): both required arguments are present.
movie_parser(title, year) == title # NoTitle /\ year # NoYear

\* MovieForm.validate_on_submit(): DataRequired and NumberRange.
MovieForm(title, year) ==
    title # NoTitle /\ year # NoYear /\ year >= 1900 /\ year <= 2100

\* POST /api/v1/movies/
MovieListAPI_post_read(u, title, year) ==
    [op |-> "MovieListAPI_post", user |-> u, title |-> title, year |-> year,
     is_admin |-> current_user_is_admin(users, u)]

MovieListAPI_post_finish(rec) ==
    LET id == NextId(DOMAIN movies)
    IN
    IF rec.user = Anonymous
    THEN Reply(Response(rec.op, 302, "redirect_login", "none"))
    ELSE IF ~rec.is_admin
    THEN Reply(Response(rec.op, 403, "error", "none"))
    ELSE IF ~movie_parser(rec.title, rec.year)
    THEN Reply(Response(rec.op, 400, "message", "none"))
    ELSE /\ id <= MaxMovieId
         /\ movies' = movies @@ (id :> NewMovie(rec.title, rec.year))
         /\ resp' = Response(rec.op, 201, "object", "none")
         /\ UNCHANGED <<users, reviews, user_favorites, call>>

\* POST /movie/add
add_movie_read(u, title, year) ==
    [op |-> "add_movie", user |-> u, title |-> title, year |-> year,
     is_admin |-> current_user_is_admin(users, u)]

add_movie_finish(rec) ==
    LET id == NextId(DOMAIN movies)
    IN
    IF rec.user = Anonymous
    THEN Reply(Response(rec.op, 302, "redirect_login", "none"))
    ELSE IF ~rec.is_admin
    THEN Reply(Response(rec.op, 403, "page", "none"))
    ELSE IF ~MovieForm(rec.title, rec.year)
    THEN Reply(Response(rec.op, 200, "page", "none"))
    ELSE /\ id <= MaxMovieId
         /\ movies' = movies @@ (id :> NewMovie(rec.title, rec.year))
         /\ resp' = Response(rec.op, 302, "redirect_movie", "success")
         /\ UNCHANGED <<users, reviews, user_favorites, call>>

\* The rows of the database that go with movie m when the session deletes
\* it: the movie, its reviews (cascade of Movie.reviews) and the rows of
\* user_favorites that name it (the secondary table of favorited_by).
WithoutMovie(ms, m) == [k \in DOMAIN ms \ {m} |-> ms[k]]

WithoutReviewsOf(rs, m) ==
    [r \in {x \in BagToSet(rs) : x.movie_id # m} |-> CopiesIn(r, rs)]

WithoutFavoritesOf(fav, m) == [k \in DOMAIN fav |-> IF k[2] = m THEN 0 ELSE fav[k]]


\* Python None in a JSON document.
None == "None"

\* Movie.to_dict(current_user): the columns, the two counts, and is_favorite
\* when the request is logged in.
Movie_to_dict(us, ms, rs, fav, m, u) ==
    LET data == [id |-> m, title |-> ms[m].title, year |-> ms[m].year,
                 rating |-> ms[m].rating,
                 favorite_count |-> favorite_count(fav, DOMAIN us, m),
                 review_count |-> BagCardinality(ReviewsOf(rs, m))]
    IN  IF u # Anonymous
        THEN data @@ ("is_favorite" :> is_favorite(fav, u, m))
        ELSE data

\* Review.to_dict(): the columns, the author's name and the movie's title,
\* None when the row they name is missing.
Review_to_dict(us, ms, row) ==
    [user_id |-> row.user_id, movie_id |-> row.movie_id, rating |-> row.rating,
     username |-> IF row.user_id \in DOMAIN us THEN us[row.user_id].username ELSE None,
     movie_title |-> IF row.movie_id \in DOMAIN ms THEN ms[row.movie_id].title ELSE None]

\* GET /api/v1/movies/: every movie, serialized.
MovieListAPI_get(u) ==
    /\ IsPrincipal(u)
    /\ Reply(ResponseWith("MovieListAPI_get", 200, "list", "none",
                          [m \in DOMAIN movies |->
                              Movie_to_dict(users, movies, reviews, user_favorites, m, u)]))
    /\ UNCHANGED req

\* The query of ReviewListAPI.get without its filter.
ReviewListAPI_get_query_unfiltered(rs, m) == rs

\* Review.query.filter_by(movie_id=movie_id).all()
ReviewListAPI_get_query(rs, m) == ReviewsOf(rs, m)

\* GET /api/v1/movies/<id>/reviews/: the reviews of the movie, serialized;
\* the movie itself is not looked up.
ReviewListAPI_get(u, m) ==
    /\ IsPrincipal(u)
    /\ Reply(ResponseWith("ReviewListAPI_get", 200, "list", "none",
                          BagOfAll(LAMBDA row : Review_to_dict(users, movies, row),
                                   ReviewListAPI_get_query(reviews, m))))
    /\ UNCHANGED req

\* GET /api/v1/movies/<id>
MovieAPI_get(u, m) ==
    /\ IsPrincipal(u)
    /\ Reply(IF m \in DOMAIN movies
             THEN ResponseWith("MovieAPI_get", 200, "object", "none",
                               Movie_to_dict(users, movies, reviews, user_favorites, m, u))
             ELSE Response("MovieAPI_get", 404, "message", "none"))
    /\ UNCHANGED req

\* PUT /api/v1/movies/<id>
MovieAPI_put_read(u, m, title, year) ==
    [op |-> "MovieAPI_put", user |-> u, movie |-> m, title |-> title, year |-> year,
     found |-> m \in DOMAIN movies,
     is_admin |-> current_user_is_admin(users, u)]

\* MovieAPI.put that stores a new row in place of the movie.
MovieAPI_put_finish_replacing(rec) ==
    IF rec.user = Anonymous
    THEN Reply(Response(rec.op, 302, "redirect_login", "none"))
    ELSE IF ~rec.is_admin
    THEN Reply(Response(rec.op, 403, "error", "none"))
    ELSE IF ~rec.found
    THEN Reply(Response(rec.op, 404, "message", "none"))
    ELSE IF ~movie_parser(rec.title, rec.year)
    THEN Reply(Response(rec.op, 400, "message", "none"))
    ELSE /\ rec.movie \in DOMAIN movies
         /\ movies' = [movies EXCEPT ![rec.movie] = NewMovie(rec.title, rec.year)]
         /\ resp' = Response(rec.op, 200, "object", "none")
         /\ UNCHANGED <<users, reviews, user_favorites, call>>

MovieAPI_put_finish(rec) ==
    IF rec.user = Anonymous
    THEN Reply(Response(rec.op, 302, "redirect_login", "none"))
    ELSE IF ~rec.is_admin
    THEN Reply(Response(rec.op, 403, "error", "none"))
    ELSE IF ~rec.found
    THEN Reply(Response(rec.op, 404, "message", "none"))
    ELSE IF ~movie_parser(rec.title, rec.year)
    THEN Reply(Response(rec.op, 400, "message", "none"))
    ELSE /\ rec.movie \in DOMAIN movies
         /\ movies' = [movies EXCEPT ![rec.movie].title = rec.title,
                                     ![rec.movie].year = rec.year]
         /\ resp' = Response(rec.op, 200, "object", "none")
         /\ UNCHANGED <<users, reviews, user_favorites, call>>

\* POST /movie/<id>/edit
edit_movie_read(u, m, title, year) ==
    [op |-> "edit_movie", user |-> u, movie |-> m, title |-> title, year |-> year,
     found |-> m \in DOMAIN movies,
     is_admin |-> current_user_is_admin(users, u)]

edit_movie_finish(rec) ==
    IF rec.user = Anonymous
    THEN Reply(Response(rec.op, 302, "redirect_login", "none"))
    ELSE IF ~rec.is_admin
    THEN Reply(Response(rec.op, 403, "page", "none"))
    ELSE IF ~rec.found
    THEN Reply(Response(rec.op, 404, "page", "none"))
    ELSE IF ~MovieForm(rec.title, rec.year)
    THEN Reply(Response(rec.op, 200, "page", "none"))
    ELSE /\ rec.movie \in DOMAIN movies
         /\ movies' = [movies EXCEPT ![rec.movie].title = rec.title,
                                     ![rec.movie].year = rec.year]
         /\ resp' = Response(rec.op, 302, "redirect_movie", "success")
         /\ UNCHANGED <<users, reviews, user_favorites, call>>

\* DELETE /api/v1/movies/<id>
MovieAPI_delete_read(u, m) ==
    [op |-> "MovieAPI_delete", user |-> u, movie |-> m,
     found |-> m \in DOMAIN movies,
     is_admin |-> current_user_is_admin(users, u)]

\* MovieAPI.delete that deletes the row of the movie only.
MovieAPI_delete_finish_nocascade(rec) ==
    IF rec.user = Anonymous
    THEN Reply(Response(rec.op, 302, "redirect_login", "none"))
    ELSE IF ~rec.is_admin
    THEN Reply(Response(rec.op, 403, "error", "none"))
    ELSE IF ~rec.found
    THEN Reply(Response(rec.op, 404, "message", "none"))
    ELSE /\ movies' = WithoutMovie(movies, rec.movie)
         /\ resp' = Response(rec.op, 200, "message", "none")
         /\ UNCHANGED <<users, reviews, user_favorites, call>>

\* MovieAPI.delete that asks nobody's role.
MovieAPI_delete_finish_open(rec) ==
    IF rec.user = Anonymous
    THEN Reply(Response(rec.op, 302, "redirect_login", "none"))
    ELSE IF ~rec.found
    THEN Reply(Response(rec.op, 404, "message", "none"))
    ELSE /\ movies' = WithoutMovie(movies, rec.movie)
         /\ reviews' = WithoutReviewsOf(reviews, rec.movie)
         /\ user_favorites' = WithoutFavoritesOf(user_favorites, rec.movie)
         /\ resp' = Response(rec.op, 200, "message", "none")
         /\ UNCHANGED <<users, call>>

MovieAPI_delete_finish(rec) ==
    IF rec.user = Anonymous
    THEN Reply(Response(rec.op, 302, "redirect_login", "none"))
    ELSE IF ~rec.is_admin
    THEN Reply(Response(rec.op, 403, "error", "none"))
    ELSE IF ~rec.found
    THEN Reply(Response(rec.op, 404, "message", "none"))
    ELSE /\ movies' = WithoutMovie(movies, rec.movie)
         /\ reviews' = WithoutReviewsOf(reviews, rec.movie)
         /\ user_favorites' = WithoutFavoritesOf(user_favorites, rec.movie)
         /\ resp' = Response(rec.op, 200, "message", "none")
         /\ UNCHANGED <<users, call>>

\* POST /movie/<id>/delete
delete_movie_read(u, m) ==
    [op |-> "delete_movie", user |-> u, movie |-> m,
     found |-> m \in DOMAIN movies,
     is_admin |-> current_user_is_admin(users, u)]

delete_movie_finish(rec) ==
    IF rec.user = Anonymous
    THEN Reply(Response(rec.op, 302, "redirect_login", "none"))
    ELSE IF ~rec.is_admin
    THEN Reply(Response(rec.op, 403, "page", "none"))
    ELSE IF ~rec.found
    THEN Reply(Response(rec.op, 404, "page", "none"))
    ELSE /\ movies' = WithoutMovie(movies, rec.movie)
         /\ reviews' = WithoutReviewsOf(reviews, rec.movie)
         /\ user_favorites' = WithoutFavoritesOf(user_favorites, rec.movie)
         /\ resp' = Response(rec.op, 302, "redirect_movie_list", "success")
         /\ UNCHANGED <<users, call>>

\* POST /admin/user/<id>/make_admin
make_admin_read(u, t) ==
    [op |-> "make_admin", user |-> u, target |-> t,
     found |-> t \in DOMAIN users,
     loaded |-> IF t \in DOMAIN users THEN users[t].is_admin ELSE FALSE,
     is_admin |-> current_user_is_admin(users, u)]

make_admin_finish(rec) ==
    IF rec.user = Anonymous
    THEN Reply(Response(rec.op, 302, "redirect_login", "none"))
    ELSE IF ~rec.is_admin
    THEN Reply(Response(rec.op, 403, "page", "none"))
    ELSE IF ~rec.found
    THEN Reply(Response(rec.op, 404, "page", "none"))
    ELSE IF rec.target = rec.user
    THEN Reply(Response(rec.op, 302, "redirect_admin_users", "warning"))
    ELSE /\ rec.target \in DOMAIN users
         /\ users' = StoreRole(users, rec.target, rec.loaded, TRUE)
         /\ resp' = Response(rec.op, 302, "redirect_admin_users", "success")
         /\ UNCHANGED <<movies, reviews, user_favorites, call>>

\* POST /admin/user/<id>/remove_admin
remove_admin_read(u, t) ==
    [op |-> "remove_admin", user |-> u, target |-> t,
     found |-> t \in DOMAIN users,
     loaded |-> IF t \in DOMAIN users THEN users[t].is_admin ELSE FALSE,
     is_admin |-> current_user_is_admin(users, u)]

\* remove_admin without the comparison of the two ids.
remove_admin_finish_self(rec) ==
    IF rec.user = Anonymous
    THEN Reply(Response(rec.op, 302, "redirect_login", "none"))
    ELSE IF ~rec.is_admin
    THEN Reply(Response(rec.op, 403, "page", "none"))
    ELSE IF ~rec.found
    THEN Reply(Response(rec.op, 404, "page", "none"))
    ELSE /\ rec.target \in DOMAIN users
         /\ users' = StoreRole(users, rec.target, rec.loaded, FALSE)
         /\ resp' = Response(rec.op, 302, "redirect_admin_users", "success")
         /\ UNCHANGED <<movies, reviews, user_favorites, call>>

remove_admin_finish(rec) ==
    IF rec.user = Anonymous
    THEN Reply(Response(rec.op, 302, "redirect_login", "none"))
    ELSE IF ~rec.is_admin
    THEN Reply(Response(rec.op, 403, "page", "none"))
    ELSE IF ~rec.found
    THEN Reply(Response(rec.op, 404, "page", "none"))
    ELSE IF rec.target = rec.user
    THEN Reply(Response(rec.op, 302, "redirect_admin_users", "warning"))
    ELSE /\ rec.target \in DOMAIN users
         /\ users' = StoreRole(users, rec.target, rec.loaded, FALSE)
         /\ resp' = Response(rec.op, 302, "redirect_admin_users", "success")
         /\ UNCHANGED <<movies, reviews, user_favorites, call>>

\* GET /reinit-db: drop_all, create_all and init_db on the empty database.
reinit_db_route_read(u) ==
    [op |-> "reinit_db_route", user |-> u,
     is_admin |-> current_user_is_admin(users, u)]

reinit_db_route_finish(rec) ==
    IF rec.user = Anonymous
    THEN Reply(Response(rec.op, 302, "redirect_login", "none"))
    ELSE IF ~rec.is_admin
    THEN Reply(Response(rec.op, 403, "page", "none"))
    ELSE /\ users' = SeedUsers
         /\ movies' = SeedMovies
         /\ reviews' = SeedReviews
         /\ user_favorites' = [k \in DOMAIN user_favorites |-> 0]
         /\ resp' = Response(rec.op, 302, "redirect_index", "success")
         /\ UNCHANGED call

\* --------------------------------------------- requests run in one step

register(u, name, pwlen, confirmed) ==
    /\ IsPrincipal(u)
    /\ register_finish(register_read(u, name, pwlen, confirmed))
    /\ UNCHANGED req

MovieListAPI_post(u, title, year) ==
    /\ IsPrincipal(u)
    /\ MovieListAPI_post_finish(MovieListAPI_post_read(u, title, year))
    /\ UNCHANGED req

add_movie(u, title, year) ==
    /\ IsPrincipal(u)
    /\ add_movie_finish(add_movie_read(u, title, year))
    /\ UNCHANGED req

ReviewListAPI_post(u, m, content, rating) ==
    /\ IsPrincipal(u)
    /\ ReviewListAPI_post_finish(ReviewListAPI_post_read(u, m, content, rating))
    /\ UNCHANGED req

ReviewAPI_delete(u, row) ==
    /\ IsPrincipal(u)
    /\ ReviewAPI_delete_finish(ReviewAPI_delete_read(u, row))
    /\ UNCHANGED req

movie_detail(u, m, content, rating) ==
    /\ IsPrincipal(u)
    /\ movie_detail_finish(movie_detail_read(u, m, content, rating))
    /\ UNCHANGED req

FavoriteAPI_post(u, m) ==
    /\ IsPrincipal(u)
    /\ FavoriteAPI_post_finish(FavoriteAPI_post_read(u, m))
    /\ UNCHANGED req

FavoriteAPI_delete(u, m) ==
    /\ IsPrincipal(u)
    /\ FavoriteAPI_delete_finish(FavoriteAPI_delete_read(u, m))
    /\ UNCHANGED req

toggle_favorite(u, m) ==
    /\ IsPrincipal(u)
    /\ toggle_favorite_finish(toggle_favorite_read(u, m))
    /\ UNCHANGED req

MovieAPI_put(u, m, title, year) ==
    /\ IsPrincipal(u)
    /\ MovieAPI_put_finish(MovieAPI_put_read(u, m, title, year))
    /\ UNCHANGED req

edit_movie(u, m, title, year) ==
    /\ IsPrincipal(u)
    /\ edit_movie_finish(edit_movie_read(u, m, title, year))
    /\ UNCHANGED req

MovieAPI_delete(u, m) ==
    /\ IsPrincipal(u)
    /\ MovieAPI_delete_finish(MovieAPI_delete_read(u, m))
    /\ UNCHANGED req

delete_movie(u, m) ==
    /\ IsPrincipal(u)
    /\ delete_movie_finish(delete_movie_read(u, m))
    /\ UNCHANGED req

make_admin(u, t) ==
    /\ IsPrincipal(u)
    /\ make_admin_finish(make_admin_read(u, t))
    /\ UNCHANGED req

remove_admin(u, t) ==
    /\ IsPrincipal(u)
    /\ remove_admin_finish(remove_admin_read(u, t))
    /\ UNCHANGED req

reinit_db_route(u) ==
    /\ IsPrincipal(u)
    /\ reinit_db_route_finish(reinit_db_route_read(u))
    /\ UNCHANGED req

\* user.add_favorite(movie) followed by db.session.commit()
User_add_favorite(u, m) ==
    LET done == add_favorite(user_favorites, u, m)
    IN  /\ u \in DOMAIN users
        /\ m \in DOMAIN movies
        /\ user_favorites' = IF FlushOK(user_favorites, done)
                             THEN Flush(user_favorites, done) ELSE user_favorites
        /\ call' = [fn |-> "add_favorite", ret |-> done.ret, raised |-> ~FlushOK(user_favorites, done)]
        /\ UNCHANGED <<users, movies, reviews, req, resp>>

\* user.remove_favorite(movie) followed by db.session.commit()
User_remove_favorite(u, m) ==
    LET done == remove_favorite(user_favorites, u, m)
    IN  /\ u \in DOMAIN users
        /\ m \in DOMAIN movies
        /\ user_favorites' = IF FlushOK(user_favorites, done)
                             THEN Flush(user_favorites, done) ELSE user_favorites
        /\ call' = [fn |-> "remove_favorite", ret |-> done.ret, raised |-> ~FlushOK(user_favorites, done)]
        /\ UNCHANGED <<users, movies, reviews, req, resp>>

\* ------------------------------------------------- sequential specifications

Registration ==
    \E u \in Principals, name \in Usernames, pwlen \in PasswordLens, c \in BOOLEAN :
        register(u, name, pwlen, c)

ReviewInsertion ==
    \E u \in Principals, m \in MovieIds, i \in ReviewInputs :
        \/ ReviewListAPI_post(u, m, i[1], i[2])
        \/ movie_detail(u, m, i[1], i[2])

ReviewDeletion ==
    \E u \in Principals, row \in BagToSet(reviews) \cup {NoRow} :
        ReviewAPI_delete(u, row)

MovieCreation ==
    \E u \in Principals, i \in MovieInputs :
        \/ MovieListAPI_post(u, i[1], i[2])
        \/ add_movie(u, i[1], i[2])

FavoriteRequest ==
    \E u \in Principals, m \in MovieIds :
        \/ FavoriteAPI_post(u, m)
        \/ FavoriteAPI_delete(u, m)
        \/ toggle_favorite(u, m)

FavoriteMethod ==
    \E u \in UserIds, m \in MovieIds :
        \/ User_add_favorite(u, m)
        \/ User_remove_favorite(u, m)

\* Review insertions and deletions, by the seeded and the registered users.
NextReviews == Registration \/ ReviewInsertion \/ ReviewDeletion

SpecReviews == Init /\ [][NextReviews]_vars

\* Movies created by an administrator, reviews by the seeded users.
NextCatalog == MovieCreation \/ ReviewInsertion \/ ReviewDeletion

SpecCatalog == Init /\ [][NextCatalog]_vars

\* The favourites methods and the favourites requests.
NextFavorites == Registration \/ FavoriteMethod \/ FavoriteRequest

SpecFavorites == Init /\ [][NextFavorites]_vars

MovieEdit ==
    \E u \in Principals, m \in MovieIds, i \in MovieInputs :
        \/ MovieAPI_put(u, m, i[1], i[2])
        \/ edit_movie(u, m, i[1], i[2])

MovieDeletion ==
    \E u \in Principals, m \in MovieIds :
        \/ MovieAPI_delete(u, m)
        \/ delete_movie(u, m)

RoleManagement ==
    \E u \in Principals, t \in UserIds :
        \/ make_admin(u, t)
        \/ remove_admin(u, t)

Reinit == \E u \in Principals : reinit_db_route(u)

MovieLookup == \E u \in Principals, m \in MovieIds : MovieAPI_get(u, m)

\* The requests reserved to administrators.
NextManagement ==
    MovieCreation \/ MovieEdit \/ MovieDeletion \/ RoleManagement \/ Reinit

SpecManagement == Init /\ [][NextManagement]_vars

\* Reviews and favourites posted through the API, and movies deleted.
CascadeSetup ==
    \E u \in UserIds, m \in MovieIds :
        \/ ReviewListAPI_post(u, m, "ok", 5)
        \/ FavoriteAPI_post(u, m)

NextCascade == CascadeSetup \/ MovieDeletion \/ MovieLookup \/ Reinit

SpecCascade == Init /\ [][NextCascade]_vars

\* The requests that need a login, sent without one.
AnonymousRequest ==
    \/ \E i \in MovieInputs :
        \/ MovieListAPI_post(Anonymous, i[1], i[2])
        \/ add_movie(Anonymous, i[1], i[2])
    \/ \E m \in MovieIds, i \in ReviewInputs :
        \/ ReviewListAPI_post(Anonymous, m, i[1], i[2])
        \/ movie_detail(Anonymous, m, i[1], i[2])
    \/ \E m \in MovieIds :
        \/ FavoriteAPI_post(Anonymous, m)
        \/ FavoriteAPI_delete(Anonymous, m)
        \/ toggle_favorite(Anonymous, m)

\* Requests without a login, among reviews and favourites of the users.
NextAnonymous == AnonymousRequest \/ CascadeSetup \/ Reinit

SpecAnonymous == Init /\ [][NextAnonymous]_vars

\* ------------------------------------------- requests run in two steps

\* The request of slot p has read what rec holds and has not flushed yet.
Begin(p, rec) ==
    /\ req[p] = Idle
    /\ IsPrincipal(rec.user)
    /\ req' = [req EXCEPT ![p] = rec]
    /\ UNCHANGED <<users, movies, reviews, user_favorites, resp, call>>

ReviewListAPI_post_begin(p, u, m, content, rating) ==
    Begin(p, ReviewListAPI_post_read(u, m, content, rating))

ReviewListAPI_post_end(p) ==
    /\ req[p].op = "ReviewListAPI_post"
    /\ ReviewListAPI_post_finish(req[p])
    /\ req' = [req EXCEPT ![p] = Idle]

movie_detail_begin(p, u, m, content, rating) ==
    Begin(p, movie_detail_read(u, m, content, rating))

movie_detail_end(p) ==
    /\ req[p].op = "movie_detail"
    /\ movie_detail_finish(req[p])
    /\ req' = [req EXCEPT ![p] = Idle]

FavoriteAPI_post_begin(p, u, m) == Begin(p, FavoriteAPI_post_read(u, m))

FavoriteAPI_post_end(p) ==
    /\ req[p].op = "FavoriteAPI_post"
    /\ FavoriteAPI_post_finish(req[p])
    /\ req' = [req EXCEPT ![p] = Idle]

FavoriteAPI_delete_begin(p, u, m) == Begin(p, FavoriteAPI_delete_read(u, m))

FavoriteAPI_delete_end(p) ==
    /\ req[p].op = "FavoriteAPI_delete"
    /\ FavoriteAPI_delete_finish(req[p])
    /\ req' = [req EXCEPT ![p] = Idle]

toggle_favorite_begin(p, u, m) == Begin(p, toggle_favorite_read(u, m))

toggle_favorite_end(p) ==
    /\ req[p].op = "toggle_favorite"
    /\ toggle_favorite_finish(req[p])
    /\ req' = [req EXCEPT ![p] = Idle]

ReviewAPI_delete_begin(p, u, row) == Begin(p, ReviewAPI_delete_read(u, row))

ReviewAPI_delete_end(p) ==
    /\ req[p].op = "ReviewAPI_delete"
    /\ ReviewAPI_delete_finish(req[p])
    /\ req' = [req EXCEPT ![p] = Idle]

register_begin(p, u, name, pwlen, confirmed) ==
    Begin(p, register_read(u, name, pwlen, confirmed))

register_end(p) ==
    /\ req[p].op = "register"
    /\ register_finish(req[p])
    /\ req' = [req EXCEPT ![p] = Idle]

\* ------------------------------------------------ interleaved specifications

\* Valid review submissions of the interleaved requests.
RaceReviewInputs == {<<"ok", 5>>}

ReviewInsertionBegin ==
    \E p \in Procs, u \in UserIds, m \in MovieIds, i \in RaceReviewInputs :
        \/ ReviewListAPI_post_begin(p, u, m, i[1], i[2])
        \/ movie_detail_begin(p, u, m, i[1], i[2])

ReviewInsertionEnd ==
    \E p \in Procs : ReviewListAPI_post_end(p) \/ movie_detail_end(p)

NextReviewRace == ReviewInsertionBegin \/ ReviewInsertionEnd

SpecReviewRace == Init /\ [][NextReviewRace]_vars

FavoriteRequestBegin ==
    \E p \in Procs, u \in UserIds, m \in MovieIds :
        \/ FavoriteAPI_post_begin(p, u, m)
        \/ FavoriteAPI_delete_begin(p, u, m)
        \/ toggle_favorite_begin(p, u, m)

FavoriteRequestEnd ==
    \E p \in Procs :
        \/ FavoriteAPI_post_end(p)
        \/ FavoriteAPI_delete_end(p)
        \/ toggle_favorite_end(p)

NextFavoriteRace == FavoriteRequestBegin \/ FavoriteRequestEnd

SpecFavoriteRace == Init /\ [][NextFavoriteRace]_vars

\* No request of user u is in flight.
NotInFlight(u) ==
    \A q \in Procs : IF req[q].op = "idle" THEN TRUE ELSE req[q].user # u

\* Review insertions and deletions, the requests in flight together being
\* requests of different users.
ReviewMutationBegin ==
    \/ \E p \in Procs, u \in UserIds, m \in MovieIds, i \in RaceReviewInputs :
        /\ NotInFlight(u)
        /\ \/ ReviewListAPI_post_begin(p, u, m, i[1], i[2])
           \/ movie_detail_begin(p, u, m, i[1], i[2])
    \/ \E p \in Procs, u \in UserIds, row \in BagToSet(reviews) :
        /\ NotInFlight(u)
        /\ ReviewAPI_delete_begin(p, u, row)

ReviewMutationEnd ==
    \E p \in Procs :
        \/ ReviewListAPI_post_end(p)
        \/ movie_detail_end(p)
        \/ ReviewAPI_delete_end(p)

NextRatingRace == ReviewMutationBegin \/ ReviewMutationEnd

SpecRatingRace == Init /\ [][NextRatingRace]_vars

RegistrationBegin ==
    \E p \in Procs, name \in Usernames, pwlen \in PasswordLens, c \in BOOLEAN :
        register_begin(p, Anonymous, name, pwlen, c)

RegistrationEnd == \E p \in Procs : register_end(p)

NextRegisterRace == RegistrationBegin \/ RegistrationEnd

SpecRegisterRace == Init /\ [][NextRegisterRace]_vars

\* ------------------------------------------------------------ the reads

\* rows of user_favorites of the user, joined to the movie table
RECURSIVE SumFavorites(_, _, _)
SumFavorites(fav, u, ms) ==
    IF ms = {} THEN 0
    ELSE LET m == CHOOSE x \in ms : TRUE
         IN fav[<<u, m>>] + SumFavorites(fav, u, ms \ {m})

\* User.to_dict with the credential column in it.
User_to_dict_leaky(us, ms, fav, u) ==
    [id |-> u, username |-> us[u].username, is_admin |-> us[u].is_admin,
     favorite_count |-> SumFavorites(fav, u, DOMAIN ms),
     password_hash |-> us[u].password_hash]

\* User.to_dict(): id, username, is_admin and the number of favourites.
User_to_dict(us, ms, fav, u) ==
    [id |-> u, username |-> us[u].username, is_admin |-> us[u].is_admin,
     favorite_count |-> SumFavorites(fav, u, DOMAIN ms)]

\* GET /api/v1/users/
UserListAPI_get(u) ==
    /\ IsPrincipal(u)
    /\ Reply(IF u = Anonymous
             THEN Response("UserListAPI_get", 302, "redirect_login", "none")
             ELSE IF ~current_user_is_admin(users, u)
             THEN Response("UserListAPI_get", 403, "error", "none")
             ELSE ResponseWith("UserListAPI_get", 200, "list", "none",
                               [x \in DOMAIN users |->
                                   User_to_dict(users, movies, user_favorites, x)]))
    /\ UNCHANGED req

\* GET /api/v1/users/<id>
UserAPI_get(u, t) ==
    /\ IsPrincipal(u)
    /\ Reply(IF u = Anonymous
             THEN Response("UserAPI_get", 302, "redirect_login", "none")
             ELSE IF u # t /\ ~current_user_is_admin(users, u)
             THEN Response("UserAPI_get", 403, "error", "none")
             ELSE IF t \notin DOMAIN users
             THEN Response("UserAPI_get", 404, "message", "none")
             ELSE ResponseWith("UserAPI_get", 200, "object", "none",
                               User_to_dict(users, movies, user_favorites, t)))
    /\ UNCHANGED req

\* The reads of movies and reviews.
Browse ==
    \E u \in Principals, m \in MovieIds :
        \/ MovieListAPI_get(u)
        \/ MovieAPI_get(u, m)
        \/ ReviewListAPI_get(u, m)

\* The reads of users.
UserBrowse ==
    \E u \in Principals, t \in UserIds :
        \/ UserListAPI_get(u)
        \/ UserAPI_get(u, t)

\* A movie posted through the API.
CatalogSetup == \E u \in UserIds : MovieListAPI_post(u, "Heat", 1995)

\* Reads among movies created and deleted, reviews and favourites.
NextBrowse == Browse \/ UserBrowse \/ CatalogSetup \/ CascadeSetup

SpecBrowse == Init /\ [][NextBrowse]_vars

\* ------------------------------------------- requests naming a movie id

\* GET /api/v1/movies/<id>/favorite/
FavoriteAPI_get(u, m) ==
    /\ IsPrincipal(u)
    /\ Reply(IF u = Anonymous
             THEN Response("FavoriteAPI_get", 302, "redirect_login", "none")
             ELSE IF m \notin DOMAIN movies
             THEN Response("FavoriteAPI_get", 404, "message", "none")
             ELSE ResponseWith("FavoriteAPI_get", 200, "object", "none",
                     [is_favorite |-> is_favorite(user_favorites, u, m),
                      favorite_count |-> favorite_count(user_favorites, DOMAIN users, m)]))
    /\ UNCHANGED req

\* GET /movie/<id>
movie_detail_get(u, m) ==
    /\ IsPrincipal(u)
    /\ Reply(IF m \notin DOMAIN movies
             THEN Response("movie_detail_get", 404, "page", "none")
             ELSE Response("movie_detail_get", 200, "page", "none"))
    /\ UNCHANGED req

\* The requests that name a movie by its id.
MovieRequest(u, m) ==
    \/ MovieAPI_get(u, m)
    \/ \E i \in MovieInputs : MovieAPI_put(u, m, i[1], i[2])
    \/ MovieAPI_delete(u, m)
    \/ FavoriteAPI_post(u, m)
    \/ FavoriteAPI_delete(u, m)
    \/ FavoriteAPI_get(u, m)
    \/ toggle_favorite(u, m)
    \/ movie_detail_get(u, m)

\* A request names a movie id that has no record.
MissingMovieRequest ==
    \E u \in Principals, m \in MovieIds :
        m \notin DOMAIN movies /\ MovieRequest(u, m)

\* Favourites added through the API.
FavoriteSetup == \E u \in UserIds, m \in MovieIds : FavoriteAPI_post(u, m)

\* Requests naming an id without a record, among movies posted and deleted
\* and favourites.
NextMissing == MissingMovieRequest \/ CatalogSetup \/ FavoriteSetup \/ MovieDeletion

SpecMissing == Init /\ [][NextMissing]_vars

\* --------------------------------------------------- rating computation

\* The rating of the review of user u when n users have reviewed one movie
\* with ratings that sum to total, the ratings being as equal as they can.
RatingOf(u, n, total) ==
    (total \div n) + (IF u <= total - n * (total \div n) THEN 1 ELSE 0)

\* The reviews of movie m by the users 1..n, their ratings summing to total.
ReviewsBy(n, total, m) == SetToBag({Row(u, m, RatingOf(u, n, total)) : u \in 1..n})

\* The users 1..n, registered after the two seeded ones.
RegisteredUsers(n) ==
    [u \in 1..n |->
        IF u \in DOMAIN SeedUsers THEN SeedUsers[u]
        ELSE [username |-> "user" \o ToString(u), is_admin |-> FALSE,
              password_hash |-> generate_password_hash(6)]]

\* n users have reviewed movie 1, each once, with ratings between 1 and 5;
\* the review of user n has been inserted and the rating of the movie is
\* still the one computed before it.
InitRounding ==
    \E n \in 1..MaxCount : \E total \in n..(5 * n) :
        /\ users = RegisteredUsers(IF n < 2 THEN 2 ELSE n)
        /\ reviews = ReviewsBy(n, total, 1)
        /\ movies = [SeedMovies EXCEPT
                        ![1].rating = update_rating(ReviewsBy(n, total, 1)
                                                    (-) SetToBag({Row(n, 1, RatingOf(n, n, total))}), 1)]
        /\ user_favorites = [p \in UserIds \X MovieIds |-> 0]
        /\ req = [p \in Procs |-> Idle]
        /\ resp = Response("none", 0, "none", "none")
        /\ call = NoCall

\* movie.update_rating() and the commit that follows it.
Movie_update_rating(m) ==
    /\ m \in DOMAIN movies
    /\ resp.op = "none"
    /\ movies' = StoreRating(movies, m, movies[m].rating, update_rating(reviews, m))
    /\ resp' = Response("update_rating", 0, "none", "none")
    /\ UNCHANGED <<users, reviews, user_favorites, req, call>>

NextRounding == \E m \in MovieIds : Movie_update_rating(m)

SpecRounding == InitRounding /\ [][NextRounding]_vars

\* ------------------------------------------------ interleaved role changes

make_admin_begin(p, u, t) == Begin(p, make_admin_read(u, t))

make_admin_end(p) ==
    /\ req[p].op = "make_admin"
    /\ make_admin_finish(req[p])
    /\ req' = [req EXCEPT ![p] = Idle]

remove_admin_begin(p, u, t) == Begin(p, remove_admin_read(u, t))

remove_admin_end(p) ==
    /\ req[p].op = "remove_admin"
    /\ remove_admin_finish(req[p])
    /\ req' = [req EXCEPT ![p] = Idle]

RoleManagementBegin ==
    \E p \in Procs, u \in UserIds, t \in UserIds :
        \/ make_admin_begin(p, u, t)
        \/ remove_admin_begin(p, u, t)

RoleManagementEnd ==
    \E p \in Procs :
        \/ make_admin_end(p)
        \/ remove_admin_end(p)

NextRoleRace == RoleManagementBegin \/ RoleManagementEnd

SpecRoleRace == Init /\ [][NextRoleRace]_vars

\* ------------------------------------------- requests for administrators

\* The requests reserved to administrators, sent by u.
AdminOnlyRequest(u) ==
    \/ MovieListAPI_post(u, "Heat", 1995)
    \/ add_movie(u, "Heat", 1995)
    \/ \E m \in MovieIds :
        \/ MovieAPI_put(u, m, "Heat", 1995)
        \/ edit_movie(u, m, "Heat", 1995)
        \/ MovieAPI_delete(u, m)
        \/ delete_movie(u, m)
    \/ \E t \in UserIds :
        \/ make_admin(u, t)
        \/ remove_admin(u, t)
    \/ reinit_db_route(u)
    \/ UserListAPI_get(u)

NextAuthority == \E u \in Principals : AdminOnlyRequest(u)

SpecAuthority == Init /\ [][NextAuthority]_vars

\* ------------------------------------------------------------- start-up

\* init_db(): what it reads before its first flush.
init_db_read ==
    [op |-> "init_db", user |-> Anonymous,
     count |-> Cardinality(DOMAIN movies),
     taken |-> \E i \in DOMAIN users, j \in DOMAIN SeedUsers :
                   users[i].username = SeedUsers[j].username]

\* init_db(): nothing when a movie exists; otherwise the two users and the
\* movies are inserted and committed (the unique constraint on username
\* raises IntegrityError there), then the reviews, then the ratings.
init_db_finish(rec) ==
    LET id == NextId(DOMAIN users)
        us == users @@ (id :> SeedUsers[1]) @@ (id + 1 :> SeedUsers[2])
        ms == [m \in DOMAIN SeedMovies |-> NewMovie(SeedMovies[m].title, SeedMovies[m].year)]
        rs == reviews (+) SeedReviews
    IN
    IF rec.count # 0
    THEN Reply(Response(rec.op, 0, "returned", "none"))
    ELSE IF rec.taken
    THEN Reply(Response(rec.op, 0, "IntegrityError", "none"))
    ELSE IF \E row \in BagToSet(SeedReviews) : ~ReviewInsertOK(reviews, row)
    THEN /\ users' = us
         /\ movies' = ms
         /\ resp' = Response(rec.op, 0, "IntegrityError", "none")
         /\ UNCHANGED <<reviews, user_favorites, call>>
    ELSE /\ users' = us
         /\ movies' = [m \in DOMAIN ms |-> [ms[m] EXCEPT !.rating = update_rating(rs, m)]]
         /\ reviews' = rs
         /\ resp' = Response(rec.op, 0, "returned", "none")
         /\ UNCHANGED <<user_favorites, call>>

\* python app.py: init_db() runs before the server accepts requests.
init_db ==
    /\ init_db_finish(init_db_read)
    /\ UNCHANGED req

\* The application restarted among movies posted and deleted,
\* reinitializations and favourites.
NextStartup == init_db \/ CatalogSetup \/ FavoriteSetup \/ MovieDeletion \/ Reinit

SpecStartup == Init /\ [][NextStartup]_vars

\* Favourites of the first movie added through the API.
FanSetup == \E u \in UserIds : FavoriteAPI_post(u, 1)

\* Movies edited among movies posted and favourites.
NextEdit == MovieEdit \/ CatalogSetup \/ FanSetup

SpecEdit == Init /\ [][NextEdit]_vars

\* ------------------------------------------------------------ properties

Abs(x) == IF x < 0 THEN -x ELSE x

\* t tenths is the mean total / n rounded to one decimal place: no other
\* number of tenths is nearer to the mean.
IsRoundedMean(t, total, n) == 2 * Abs(10 * total - n * t) <= n

\* The only change of the review table in this step is a new review of
\* movie m by user u with rating r.
Posted(u, m, r) == reviews' = reviews (+) SetToBag({Row(u, m, r)})

\* The only change of the review table in this step is that the review of
\* movie m by user u is gone.
Deleted(u, m) ==
    \E row \in BagToSet(reviews) :
        /\ row.user_id = u /\ row.movie_id = m
        /\ reviews' = reviews (-) SetToBag({row})

\* The users and ratings of the reviews of movie m.
Opinions(m) == ReviewsOf(reviews, m)

\* C1: after any sequence of review insertions (API, web form) and review
\* deletions, every movie that has reviews has as its rating the mean of the
\* ratings of exactly its current reviews, rounded to one decimal place.
C1_RatingIsRoundedMean ==
    \A m \in DOMAIN movies :
        LET rs == ReviewsOf(reviews, m)
        IN  BagCardinality(rs) > 0 =>
                IsRoundedMean(movies[m].rating, SumRatings(rs), BagCardinality(rs))

\* C1 witness: a review was just inserted through the web form and the movie
\* has three reviews whose mean, 13/3, is stored as 4.3.
C1_Witness ==
    /\ resp.op = "movie_detail" /\ resp.flash = "success"
    /\ \E m \in DOMAIN movies :
        /\ BagCardinality(ReviewsOf(reviews, m)) = 3
        /\ SumRatings(ReviewsOf(reviews, m)) = 13
        /\ movies[m].rating = 43

\* C2: every movie without reviews has rating 0.0, in every reachable state:
\* a movie just created, and a movie whose last review was deleted.
C2_NoReviewsZeroRating ==
    \A m \in DOMAIN movies :
        BagCardinality(ReviewsOf(reviews, m)) = 0 => movies[m].rating = 0

\* C2 witness: the last review of the seeded movie was just deleted, and a
\* movie created by the administrator exists; neither has a review.
C2_Witness ==
    /\ resp.op = "ReviewAPI_delete" /\ resp.status = 200
    /\ DOMAIN movies = 1..(NSeedMovies + 1)
    /\ \A m \in DOMAIN movies :
        BagCardinality(ReviewsOf(reviews, m)) = 0 /\ movies[m].rating = 0

\* C3: from a movie without reviews (rating 0.0), user a posting 5 makes the
\* rating 5.0; user b then posting 3 makes it 4.0; the deletion of the review
\* of a then makes it 3.0.
C3_RatingScenario ==
    [][reviews' # reviews =>
       \A m \in DOMAIN movies :
        LET rating == movies[m].rating
            opinions == Opinions(m)
        IN  \A a \in DOMAIN users, b \in DOMAIN users :
              a # b =>
                /\ (rating = 0 /\ opinions = EmptyBag /\ Posted(a, m, 5))
                      => movies'[m].rating = 50
                /\ (rating = 50 /\ opinions = SetToBag({Row(a, m, 5)})
                      /\ Posted(b, m, 3))
                      => movies'[m].rating = 40
                /\ (rating = 40 /\ opinions = SetToBag({Row(a, m, 5), Row(b, m, 3)})
                      /\ Deleted(a, m))
                      => movies'[m].rating = 30]_vars

\* C3 witness: the scenario has run on movie 1 with a = user 2 and b = user 1,
\* whose seeded review had to go first: a review has just been deleted, the
\* review by user 1 with rating 3 is the only one left, and the rating is 3.0.
C3_Witness ==
    /\ resp.op = "ReviewAPI_delete" /\ resp.status = 200
    /\ reviews = SetToBag({Row(1, 1, 3)})
    /\ movies[1].rating = 30

\* C4: at most one review exists per (user, movie) pair, whichever handler
\* inserts, also when two insertions of the same user for the same movie
\* have both passed the check for an existing review.
C4_OneReviewPerUserAndMovie ==
    \A r1 \in BagToSet(reviews), r2 \in BagToSet(reviews) :
        (r1.user_id = r2.user_id /\ r1.movie_id = r2.movie_id)
            => (r1 = r2 /\ CopiesIn(r1, reviews) = 1)

\* C4 witness: an API insertion that had found no existing review was
\* refused at its flush, the review of that user and movie being committed
\* meanwhile by the other request.
C4_Witness ==
    /\ resp.op = "ReviewListAPI_post" /\ resp.status = 500
    /\ BagCardinality(reviews) > BagCardinality(SeedReviews)

HasReview(u, m) == \E x \in BagToSet(reviews) : x.user_id = u /\ x.movie_id = m

\* C5: a valid review submission by a user who already has a review of the
\* movie is answered with a conflict (the API: status 400 and an error
\* message; the web form: a flash message) and changes neither the reviews
\* nor the rating.
C5_DuplicateReviewIsConflict ==
    [][\A u \in DOMAIN users, m \in DOMAIN movies, r \in 1..5 :
        HasReview(u, m) =>
          /\ ReviewListAPI_post(u, m, "ok", r) =>
                /\ resp'.status = 400 /\ resp'.body = "error"
                /\ UNCHANGED <<reviews, movies>>
          /\ movie_detail(u, m, "ok", r) =>
                /\ resp'.flash \in {"warning", "danger"}
                /\ UNCHANGED <<reviews, movies>>]_vars

\* A rejection of malformed input: status 400 of the API, or the form shown
\* again with its errors.
IsValidationError(x) == x.status = 400 \/ (x.status = 200 /\ x.body = "page")

\* C6: every stored review has a rating in 1..5, and a submission by a
\* logged-in user with a rating outside 1..5 is rejected as a validation
\* error and changes neither the reviews nor the rating.
C6_RatingOutOfRangeIsValidationError ==
    [][/\ \A x \in BagToSet(reviews') : x.rating \in 1..5
       /\ \A u \in DOMAIN users, m \in DOMAIN movies, r \in RatingInputs \ (1..5) :
            (ReviewListAPI_post(u, m, "ok", r) \/ movie_detail(u, m, "ok", r)) =>
                /\ IsValidationError(resp')
                /\ UNCHANGED <<reviews, movies>>]_vars

\* C7: add_favorite is idempotent: afterwards the pair is a favourite and is
\* recorded exactly once; the call returns True if the pair was absent and
\* False if it was present, as in every repeated call.
C7_AddFavoriteIdempotent ==
    [][\A u \in DOMAIN users, m \in DOMAIN movies :
        User_add_favorite(u, m) =>
          /\ is_favorite(user_favorites', u, m)
          /\ user_favorites'[<<u, m>>] = 1
          /\ call'.ret = (user_favorites[<<u, m>>] = 0)
          /\ ~call'.raised
          /\ \A k \in DOMAIN user_favorites :
                k # <<u, m>> => user_favorites'[k] = user_favorites[k]]_vars

\* C7 witness: add_favorite was called on a pair that was a favourite
\* already: it returned False and the pair is recorded once.
C7_Witness ==
    /\ call = [fn |-> "add_favorite", ret |-> FALSE, raised |-> FALSE]
    /\ \E k \in DOMAIN user_favorites : user_favorites[k] = 1

\* C8: is_favorite right after remove_favorite is False; remove_favorite
\* returns True on a favourite pair; on a pair that is no favourite it
\* returns False, raises nothing and leaves the relation as it was.
C8_RemoveFavorite ==
    [][\A u \in DOMAIN users, m \in DOMAIN movies :
        User_remove_favorite(u, m) =>
          /\ ~is_favorite(user_favorites', u, m)
          /\ call'.ret = is_favorite(user_favorites, u, m)
          /\ ~call'.raised
          /\ ~is_favorite(user_favorites, u, m) => user_favorites' = user_favorites]_vars

\* C8 witness: remove_favorite was called on a pair that was no favourite,
\* while another pair is a favourite.
C8_Witness ==
    /\ call = [fn |-> "remove_favorite", ret |-> FALSE, raised |-> FALSE]
    /\ \E k \in DOMAIN user_favorites : user_favorites[k] = 1

Fans(fav, us, m) == {u \in us : is_favorite(fav, u, m)}

\* C9: favorite_count of a movie is the number of distinct users that have
\* it as a favourite; a user adding a favourite raises it by one (0 to 1),
\* adding it again leaves it, removing the favourite lowers it by one (1 to 0).
C9_FavoriteCount ==
    [][/\ \A m \in DOMAIN movies' :
            favorite_count(user_favorites', DOMAIN users', m)
                = Cardinality(Fans(user_favorites', DOMAIN users', m))
       /\ \A u \in DOMAIN users, m \in DOMAIN movies :
            LET n == favorite_count(user_favorites, DOMAIN users, m)
                n1 == favorite_count(user_favorites', DOMAIN users', m)
            IN  /\ (resp'.op = "FavoriteAPI_post" /\ ~is_favorite(user_favorites, u, m)
                        /\ FavoriteAPI_post(u, m))
                      => n1 = n + 1
                /\ (resp'.op = "FavoriteAPI_post" /\ is_favorite(user_favorites, u, m)
                        /\ FavoriteAPI_post(u, m))
                      => n1 = n
                /\ (resp'.op = "FavoriteAPI_delete" /\ is_favorite(user_favorites, u, m)
                        /\ FavoriteAPI_delete(u, m))
                      => n1 = n - 1]_vars

\* C9 witness: a user has just removed a favourite through the API and the
\* movie has no favourite left.
C9_Witness ==
    /\ resp.op = "FavoriteAPI_delete" /\ resp.status = 200
    /\ \A m \in DOMAIN movies : favorite_count(user_favorites, DOMAIN users, m) = 0

\* C10: when a request that had seen the pair as no favourite inserts it
\* after another request has committed the same pair, the pair stays recorded
\* once and the caller gets no error.
C10_DuplicateInsertIsBenign ==
    [][\A p \in Procs :
        (/\ req[p].op \in {"toggle_favorite", "FavoriteAPI_post"}
         /\ req'[p] = Idle
         /\ req[p].done.insert # {}
         /\ is_favorite(user_favorites, req[p].user, req[p].movie))
        => /\ user_favorites'[<<req[p].user, req[p].movie>>] = 1
           /\ resp'.status # 500
           /\ resp'.flash # "danger"]_vars

\* The rating of movie m is the one its committed reviews call for.
RatingIsCurrent(m) ==
    LET rs == ReviewsOf(reviews, m)
        n == BagCardinality(rs)
    IN  IF n = 0 THEN movies[m].rating = 0
        ELSE IsRoundedMean(movies[m].rating, SumRatings(rs), n)

\* C11: once the interleaved review insertions and deletions of different
\* users have all committed, the rating of every movie is the rounded mean of
\* the committed reviews of that movie (0.0 without reviews).
C11_RatingNeverStale ==
    (\A p \in Procs : req[p] = Idle) => \A m \in DOMAIN movies : RatingIsCurrent(m)

\* C12: an administrator who names their own id as the target of make_admin
\* or remove_admin is rejected (a warning, no role granted or revoked), and
\* no row of the user table changes in that request.
C12_OwnRoleIsNotChanged ==
    [][\A a \in DOMAIN users :
        (users[a].is_admin /\ (make_admin(a, a) \/ remove_admin(a, a)))
            => /\ resp'.flash = "warning"
               /\ resp'.body = "redirect_admin_users"
               /\ users' = users]_vars

\* C12 witness: user 2, made an administrator, has revoked the role of user 1
\* and was then refused the revocation of their own role.
C12_Witness ==
    /\ resp.op = "remove_admin" /\ resp.flash = "warning"
    /\ users[2].is_admin /\ ~users[1].is_admin

\* A submission of a movie with a title and a year in 1900..2100.
WellFormed(i) == i[1] # NoTitle /\ i[2] >= 1900 /\ i[2] <= 2100

\* C13: a well-formed create-movie request of a logged-in user who is no
\* administrator is answered 403 and creates no movie; the same request of an
\* administrator creates exactly one movie, with the submitted title and
\* year, rating 0.0, no review and no favourite.
C13_CreateMovieByAdminOnly ==
    [][\A u \in DOMAIN users, i \in {x \in MovieInputs : WellFormed(x)} :
        MovieListAPI_post(u, i[1], i[2]) =>
            IF ~users[u].is_admin
            THEN resp'.status = 403 /\ movies' = movies
            ELSE \E id \in DOMAIN movies' \ DOMAIN movies :
                    /\ DOMAIN movies' = DOMAIN movies \cup {id}
                    /\ \A m \in DOMAIN movies : movies'[m] = movies[m]
                    /\ movies'[id] = [title |-> i[1], year |-> i[2], rating |-> 0]
                    /\ BagCardinality(ReviewsOf(reviews', id)) = 0
                    /\ \A f \in DOMAIN users' : ~is_favorite(user_favorites', f, id)]_vars

\* C14: a request to edit or delete a movie, to grant or revoke the
\* administrator role, or to reinitialize the database, sent by a logged-in
\* user who is no administrator, is answered 403 and changes no movie, review,
\* favourite or role; the same request without a login changes nothing either.
C14_ManagementByAdminOnly ==
    [][\A u \in DOMAIN users \cup {Anonymous} :
        (u = Anonymous \/ ~users[u].is_admin) =>
          LET Refused == /\ UNCHANGED <<users, movies, reviews, user_favorites>>
                         /\ u # Anonymous => resp'.status = 403
          IN  \/ Refused
              \/ /\ resp'.op = "MovieAPI_put" =>
                       \A m \in MovieIds, i \in MovieInputs :
                           ~MovieAPI_put(u, m, i[1], i[2])
                 /\ resp'.op = "edit_movie" =>
                       \A m \in MovieIds, i \in MovieInputs :
                           ~edit_movie(u, m, i[1], i[2])
                 /\ resp'.op = "MovieAPI_delete" =>
                       \A m \in MovieIds : ~MovieAPI_delete(u, m)
                 /\ resp'.op = "delete_movie" =>
                       \A m \in MovieIds : ~delete_movie(u, m)
                 /\ resp'.op = "make_admin" =>
                       \A t \in UserIds : ~make_admin(u, t)
                 /\ resp'.op = "remove_admin" =>
                       \A t \in UserIds : ~remove_admin(u, t)
                 /\ resp'.op = "reinit_db_route" => ~reinit_db_route(u)]_vars

\* C14 witness: the seeded movie being deleted, a user who is no
\* administrator was refused the reinitialization of the database.
C14_Witness ==
    /\ resp.op = "reinit_db_route" /\ resp.status = 403
    /\ 1 \notin DOMAIN movies

\* The form of the movie page validates.
ReviewFormOK(content, rating) == content = "ok" /\ rating >= 1 /\ rating <= 5

\* The request is answered with a redirect to the login page.
RedirectedToLogin == resp'.status = 302 /\ resp'.body = "redirect_login"

\* C15 as claimed: every request without a login to create a movie, to post a
\* review (API or web form) or to add, remove or toggle a favourite is
\* answered with a redirect to the login page and changes nothing.
C15_AnonymousIsRedirected ==
    [][LET Redirected == /\ RedirectedToLogin
                         /\ UNCHANGED <<users, movies, reviews, user_favorites>>
       IN  /\ \A i \in MovieInputs :
                /\ (resp'.op = "MovieListAPI_post"
                        /\ MovieListAPI_post(Anonymous, i[1], i[2])) => Redirected
                /\ (resp'.op = "add_movie" /\ add_movie(Anonymous, i[1], i[2]))
                        => Redirected
           /\ \A m \in MovieIds, r \in ReviewInputs :
                /\ (resp'.op = "ReviewListAPI_post"
                        /\ ReviewListAPI_post(Anonymous, m, r[1], r[2])) => Redirected
                /\ (resp'.op = "movie_detail"
                        /\ movie_detail(Anonymous, m, r[1], r[2])) => Redirected
           /\ \A m \in MovieIds :
                /\ (resp'.op = "FavoriteAPI_post" /\ FavoriteAPI_post(Anonymous, m))
                        => Redirected
                /\ (resp'.op = "FavoriteAPI_delete" /\ FavoriteAPI_delete(Anonymous, m))
                        => Redirected
                /\ (resp'.op = "toggle_favorite" /\ toggle_favorite(Anonymous, m))
                        => Redirected]_vars

\* C15 amended: no such request changes the database; the requests to the
\* API, to /movie/add and to the favourites are redirected to the login page;
\* the web review form is redirected to the login page when the movie exists
\* and the form validates, is answered 404 when the movie does not exist and
\* is shown again (200) when the form does not validate.
C15_AnonymousChangesNothing ==
    [][LET Unchanged == UNCHANGED <<users, movies, reviews, user_favorites>>
           Redirected == RedirectedToLogin /\ Unchanged
       IN  /\ \A i \in MovieInputs :
                /\ (resp'.op = "MovieListAPI_post"
                        /\ MovieListAPI_post(Anonymous, i[1], i[2])) => Redirected
                /\ (resp'.op = "add_movie" /\ add_movie(Anonymous, i[1], i[2]))
                        => Redirected
           /\ \A m \in MovieIds, r \in ReviewInputs :
                /\ (resp'.op = "ReviewListAPI_post"
                        /\ ReviewListAPI_post(Anonymous, m, r[1], r[2])) => Redirected
                /\ (resp'.op = "movie_detail"
                        /\ movie_detail(Anonymous, m, r[1], r[2]))
                   => /\ Unchanged
                      /\ IF m \notin DOMAIN movies THEN resp'.status = 404
                         ELSE IF ~ReviewFormOK(r[1], r[2])
                         THEN resp'.status = 200 /\ resp'.body = "page"
                         ELSE RedirectedToLogin
           /\ \A m \in MovieIds :
                /\ (resp'.op = "FavoriteAPI_post" /\ FavoriteAPI_post(Anonymous, m))
                        => Redirected
                /\ (resp'.op = "FavoriteAPI_delete" /\ FavoriteAPI_delete(Anonymous, m))
                        => Redirected
                /\ (resp'.op = "toggle_favorite" /\ toggle_favorite(Anonymous, m))
                        => Redirected]_vars

\* C15 witness: a valid review form sent without a login was redirected to
\* the login page, while a user has a favourite.
C15_Witness ==
    /\ resp.op = "movie_detail" /\ resp.status = 302 /\ resp.flash = "warning"
    /\ \E k \in DOMAIN user_favorites : user_favorites[k] = 1

\* C16: a request to delete a review, sent by a user who is neither its
\* author nor an administrator, is answered 403 and leaves the reviews and
\* the ratings as they were; sent by the author or by an administrator it
\* removes that review and no other, and the rating of the movie is the one
\* the remaining reviews call for.
C16_DeleteByAuthorOrAdmin ==
    [][resp'.op = "ReviewAPI_delete" =>
       \A u \in DOMAIN users, row \in BagToSet(reviews) :
        \/ IF row.user_id # u /\ ~users[u].is_admin
           THEN resp'.status = 403 /\ UNCHANGED <<reviews, movies>>
           ELSE /\ resp'.status = 200
                /\ reviews' = reviews (-) SetToBag({row})
                /\ row.movie_id \in DOMAIN movies =>
                       LET rs == ReviewsOf(reviews', row.movie_id)
                           n == BagCardinality(rs)
                           t == movies'[row.movie_id].rating
                       IN  IF n = 0 THEN t = 0
                           ELSE IsRoundedMean(t, SumRatings(rs), n)
        \/ ~ReviewAPI_delete(u, row)]_vars

\* C16 witness: a user who is no administrator was refused the deletion of a
\* review of another user, while the movie has three reviews.
C16_Witness ==
    /\ resp.op = "ReviewAPI_delete" /\ resp.status = 403
    /\ BagCardinality(ReviewsOf(reviews, 1)) = 3

\* C17: when an administrator deletes a movie, the movie is gone together
\* with every review of it and every favourites row that names it; a GET of
\* the id of a movie that does not exist is answered 404.
C17_DeleteMovieCascades ==
    [][/\ \A u \in DOMAIN users, m \in DOMAIN movies :
            (/\ users[u].is_admin
             /\ resp'.op \in {"MovieAPI_delete", "delete_movie"}
             /\ (MovieAPI_delete(u, m) \/ delete_movie(u, m)))
            => /\ m \notin DOMAIN movies'
               /\ \A r \in BagToSet(reviews') : r.movie_id # m
               /\ \A f \in UserIds : user_favorites'[<<f, m>>] = 0
       /\ \A u \in Principals, m \in MovieIds \ DOMAIN movies :
            (resp'.op = "MovieAPI_get" /\ MovieAPI_get(u, m)) => resp'.status = 404]_vars

\* C17 witness: after a favourite was added through the API, the seeded
\* movie, which had a review, was deleted and a GET of its id is answered 404.
C17_Witness ==
    /\ resp.op = "MovieAPI_get" /\ resp.status = 404
    /\ call = [fn |-> "add_favorite", ret |-> TRUE, raised |-> FALSE]
    /\ 1 \notin DOMAIN movies
    /\ \A r \in BagToSet(reviews) : r.movie_id # 1
    /\ \A f \in UserIds : user_favorites[<<f, 1>>] = 0

\* C18: every review names a user that exists and a movie that exists, in
\* every reachable state.
C18_ReviewReferencesExist ==
    \A r \in BagToSet(reviews) :
        r.user_id \in DOMAIN users /\ r.movie_id \in DOMAIN movies

\* C19: a request of an administrator to create or to update a movie, by the
\* API or by the web form, that lacks the title or the year or carries a year
\* outside 1900..2100, is rejected as a validation error and creates or
\* changes no movie.
C19_MovieInputIsValidated ==
    [][\A u \in DOMAIN users, i \in {x \in MovieInputs : ~WellFormed(x)} :
        users[u].is_admin =>
          /\ (\/ resp'.op = "MovieListAPI_post" /\ MovieListAPI_post(u, i[1], i[2])
              \/ resp'.op = "add_movie" /\ add_movie(u, i[1], i[2]))
             => IsValidationError(resp') /\ movies' = movies
          /\ \A m \in DOMAIN movies :
              (\/ resp'.op = "MovieAPI_put" /\ MovieAPI_put(u, m, i[1], i[2])
               \/ resp'.op = "edit_movie" /\ edit_movie(u, m, i[1], i[2]))
              => IsValidationError(resp') /\ movies' = movies]_vars

\* No two rows of the user table have the same username.
UsernamesUnique(us) ==
    \A i \in DOMAIN us, j \in DOMAIN us : us[i].username = us[j].username => i = j

\* C20: usernames are unique in every state; a registration that ends while
\* its username exists, or whose password is shorter than 6 characters or is
\* not confirmed, creates no user and reports no success, also when it had
\* found the username free before another registration committed it.
C20_UsernamesAreUnique ==
    [][/\ UsernamesUnique(users) /\ UsernamesUnique(users')
       /\ \A p \in Procs :
            (/\ req[p].op = "register" /\ req'[p] = Idle
             /\ \/ \E i \in DOMAIN users : users[i].username = req[p].username
                \/ req[p].pwlen < 6
                \/ ~req[p].confirmed)
            => users' = users /\ resp'.flash # "success"]_vars

\* C20 witness: a registration that had found its username free was refused
\* at its flush, the other registration having committed that username.
C20_Witness ==
    /\ resp.op = "register" /\ resp.status = 500
    /\ \E i \in DOMAIN users : i > 2 /\ users[i].username = "guest"

\* C21: for Anonymous the movie listing answers 200 with every current movie
\* and no other, movie detail answers 200 with the movie asked for, the review
\* listing answers 200 with exactly the reviews of the movie asked for; none
\* of the three changes movies, reviews, favourites or users.
C21_AnonymousReads ==
    [][/\ (resp'.op = "MovieListAPI_get" /\ MovieListAPI_get(Anonymous)) =>
              /\ resp'.status = 200
              /\ DOMAIN resp'.data = DOMAIN movies
              /\ \A x \in DOMAIN movies :
                    /\ resp'.data[x].id = x
                    /\ resp'.data[x].title = movies[x].title
                    /\ resp'.data[x].year = movies[x].year
                    /\ resp'.data[x].rating = movies[x].rating
              /\ UNCHANGED db
       /\ resp'.op = "MovieAPI_get" =>
              \A m \in DOMAIN movies :
                  MovieAPI_get(Anonymous, m) =>
                      /\ resp'.status = 200
                      /\ resp'.data.id = m
                      /\ resp'.data.title = movies[m].title
                      /\ resp'.data.year = movies[m].year
                      /\ resp'.data.rating = movies[m].rating
                      /\ UNCHANGED db
       /\ resp'.op = "ReviewListAPI_get" =>
              \A m \in MovieIds :
                  ReviewListAPI_get(Anonymous, m) =>
                      /\ resp'.status = 200
                      /\ BagCardinality(resp'.data) = BagCardinality(ReviewsOf(reviews, m))
                      /\ \A d \in BagToSet(resp'.data) :
                            /\ d.movie_id = m
                            /\ CopiesIn(d, resp'.data) =
                                   CopiesIn(Row(d.user_id, d.movie_id, d.rating), reviews)
                      /\ UNCHANGED db
      ]_vars

\* The review listing of movie 1 has been answered with its two reviews while
\* movie 2 has a review of its own.
C21_Witness ==
    /\ resp.op = "ReviewListAPI_get"
    /\ resp.status = 200
    /\ BagCardinality(resp.data) = 2
    /\ \A d \in BagToSet(resp.data) : d.movie_id = 1
    /\ 2 \in DOMAIN movies
    /\ BagCardinality(ReviewsOf(reviews, 2)) = 1

\* The values a credential hash may take.
Hashes == {generate_password_hash(n) : n \in {7, 8}}

\* The user table with the credential hashes replaced by those of h.
WithHashes(us, h) == [u \in DOMAIN us |-> [us[u] EXCEPT !.password_hash = h[u]]]

\* C22: no serialized object depends on a credential hash: whatever hashes
\* replace the stored ones, every serialized User, Movie and Review is the
\* same; a serialized User has no credential field, and neither has any
\* user object in a response.
C22_NoCredentialInResponses ==
    /\ \A h \in [DOMAIN users -> Hashes] :
          LET us == WithHashes(users, h)
          IN  /\ \A u \in DOMAIN users :
                    User_to_dict(us, movies, user_favorites, u) =
                        User_to_dict(users, movies, user_favorites, u)
              /\ \A m \in DOMAIN movies, u \in Principals :
                    IsPrincipal(u) =>
                        Movie_to_dict(us, movies, reviews, user_favorites, m, u) =
                            Movie_to_dict(users, movies, reviews, user_favorites, m, u)
              /\ \A row \in BagToSet(reviews) :
                    Review_to_dict(us, movies, row) = Review_to_dict(users, movies, row)
    /\ \A u \in DOMAIN users :
          "password_hash" \notin DOMAIN User_to_dict(users, movies, user_favorites, u)
    /\ (resp.op = "UserListAPI_get" /\ resp.status = 200) =>
          \A x \in DOMAIN resp.data : "password_hash" \notin DOMAIN resp.data[x]
    /\ (resp.op = "UserAPI_get" /\ resp.status = 200) =>
          "password_hash" \notin DOMAIN resp.data

\* The user list has been answered to an administrator while two users hold
\* different credential hashes.
C22_Witness ==
    /\ resp.op = "UserListAPI_get"
    /\ resp.status = 200
    /\ DOMAIN resp.data = DOMAIN users
    /\ users[1].password_hash # users[2].password_hash

\* C23: through the API, POST on a pair that is a favourite already answers
\* 400 and DELETE on a pair that is no favourite answers 400, both leaving the
\* relation (and so every favorite_count) as it was; POST on an absent pair
\* answers 201 with is_favorite true and makes it a favourite, DELETE on a
\* present pair answers 200 with is_favorite false and removes it.
C23_FavoriteApiIsStrict ==
    [][/\ resp'.op = "FavoriteAPI_post" =>
              \A u \in DOMAIN users, m \in DOMAIN movies :
                  FavoriteAPI_post(u, m) =>
                      IF is_favorite(user_favorites, u, m)
                      THEN /\ resp'.status = 400
                           /\ UNCHANGED db
                      ELSE /\ resp'.status = 201
                           /\ resp'.data.is_favorite = TRUE
                           /\ is_favorite(user_favorites', u, m)
                           /\ resp'.data.favorite_count =
                                  Cardinality(Fans(user_favorites, DOMAIN users, m)) + 1
       /\ resp'.op = "FavoriteAPI_delete" =>
              \A u \in DOMAIN users, m \in DOMAIN movies :
                  FavoriteAPI_delete(u, m) =>
                      IF ~is_favorite(user_favorites, u, m)
                      THEN /\ resp'.status = 400
                           /\ UNCHANGED db
                      ELSE /\ resp'.status = 200
                           /\ resp'.data.is_favorite = FALSE
                           /\ ~is_favorite(user_favorites', u, m)
                           /\ resp'.data.favorite_count =
                                  Cardinality(Fans(user_favorites, DOMAIN users, m)) - 1
      ]_vars

\* A POST on a favourite has been refused with 400 while the movie still has
\* its two fans.
C23_Witness ==
    /\ resp.op = "FavoriteAPI_post"
    /\ resp.status = 400
    /\ Cardinality(Fans(user_favorites, DOMAIN users, 1)) = 2

\* The relation with the membership of the pair (u, m) flipped.
Toggled(fav, u, m) == [fav EXCEPT ![<<u, m>>] = 1 - @]

\* C24: a toggle by a logged-in user on an existing movie flips the
\* membership of that pair and changes no other pair, so favorite_count of
\* the movie moves by one; flipping twice gives the relation back, so two
\* consecutive toggles restore the relation and favorite_count.
C24_ToggleFlips ==
    [][resp'.op = "toggle_favorite" =>
          \A u \in DOMAIN users, m \in DOMAIN movies :
              toggle_favorite(u, m) =>
                  /\ is_favorite(user_favorites', u, m) = ~is_favorite(user_favorites, u, m)
                  /\ user_favorites' = Toggled(user_favorites, u, m)
                  /\ Toggled(user_favorites', u, m) = user_favorites
                  /\ Abs(favorite_count(user_favorites', DOMAIN users, m)
                         - favorite_count(user_favorites, DOMAIN users, m)) = 1
                  /\ \A k \in DOMAIN user_favorites :
                        k # <<u, m>> => user_favorites'[k] = user_favorites[k]
                  /\ UNCHANGED <<users, movies, reviews>>
      ]_vars

\* A toggle has removed the favourite of user 2 while user 1 keeps theirs.
C24_Witness ==
    /\ resp.op = "toggle_favorite"
    /\ call.fn = "remove_favorite"
    /\ call.ret
    /\ ~is_favorite(user_favorites, 2, 1)
    /\ is_favorite(user_favorites, 1, 1)

\* The requests of C25 that ask for a login before they look the movie up,
\* and those that ask for an administrator.
NeedsLogin ==
    {"MovieAPI_put", "MovieAPI_delete", "FavoriteAPI_post", "FavoriteAPI_delete",
     "FavoriteAPI_get", "toggle_favorite"}

NeedsAdmin == {"MovieAPI_put", "MovieAPI_delete"}

\* C25 as stated: every request that names a movie id with no record (movie
\* get, update, delete; favourite add, remove, status; web toggle and detail
\* page) is answered NotFound and changes no movie, review, favourite or user.
C25_MissingMovieIsNotFound ==
    [][\A u \in Principals, m \in MovieIds :
          (m \notin DOMAIN movies /\ MovieRequest(u, m)) =>
              /\ resp'.status = 404
              /\ UNCHANGED db
      ]_vars

\* C25 amended: such a request changes nothing; it is answered with the
\* redirect to login when it needs a login and has none, Forbidden when it
\* needs an administrator and the user is none, and NotFound otherwise.
C25_MissingMovieChangesNothing ==
    [][\A u \in Principals, m \in MovieIds :
          (m \notin DOMAIN movies /\ MovieRequest(u, m)) =>
              /\ UNCHANGED db
              /\ resp'.status =
                    IF u = Anonymous /\ resp'.op \in NeedsLogin THEN 302
                    ELSE IF resp'.op \in NeedsAdmin /\ ~users[u].is_admin THEN 403
                    ELSE 404
      ]_vars

\* Adding a favourite for a movie id without a record has been answered
\* NotFound, and no favourite names that id.
C25_Witness ==
    /\ resp.op = "FavoriteAPI_post"
    /\ resp.status = 404
    /\ 2 \notin DOMAIN movies
    /\ \A u \in UserIds : ~is_favorite(user_favorites, u, 2)
    /\ \E u \in UserIds : is_favorite(user_favorites, u, 1)

\* The mean total / n lies exactly halfway between two tenths.
IsTie(total, n) == 2 * ((10 * total) % n) = n

\* C26: when the mean of the ratings of a movie is exactly halfway between
\* two tenths (four reviews summing to 17 or to 19, say), update_rating
\* stores the neighbour with the even number of tenths, for every such mean.
C26_TiesRoundToEven ==
    (resp.op = "update_rating" /\ IsTie(SumRatings(ReviewsOf(reviews, 1)),
                                         BagCardinality(ReviewsOf(reviews, 1)))) =>
        /\ movies[1].rating % 2 = 0
        /\ IsRoundedMean(movies[1].rating, SumRatings(ReviewsOf(reviews, 1)),
                         BagCardinality(ReviewsOf(reviews, 1)))

\* C27: an administrator exists in every state, whatever make_admin and
\* remove_admin requests have run, interleaved or not.
C27_AnAdminRemains == \E u \in DOMAIN users : users[u].is_admin

\* C28: the role is the one stored when the request runs: an admin-only
\* request (movie create, edit, delete, role management, reinitialization,
\* user listing) by a logged-in user is forbidden exactly when the stored
\* record of the user says they are no administrator; so after remove_admin
\* for U every such request by U is forbidden, after make_admin for U none
\* is, without a new login.
C28_RoleIsReadPerRequest ==
    [][\A u \in DOMAIN users :
          AdminOnlyRequest(u) => (resp'.status = 403 <=> ~users[u].is_admin)
      ]_vars

\* The seeded administrator is refused the user list after losing the role,
\* while the seeded user, made administrator, holds it.
C28_Witness ==
    /\ resp.op = "UserListAPI_get"
    /\ resp.status = 403
    /\ ~users[1].is_admin
    /\ users[2].is_admin

\* C29: init_db is safe in every reachable state: with a movie in the table
\* it changes nothing; with no movie in the table (the administrator has
\* deleted them all, the users remain) it seeds the movies without failing
\* and leaves the usernames unique; after a reinitialization the state is the
\* seed state.
C29_InitDbIsSafe ==
    [][/\ init_db =>
              IF DOMAIN movies # {}
              THEN UNCHANGED db
              ELSE /\ resp'.body # "IntegrityError"
                   /\ movies' = SeedMovies
                   /\ UsernamesUnique(users')
       /\ (resp'.op = "reinit_db_route" /\ resp'.status = 302
             /\ \E u \in DOMAIN users : users[u].is_admin /\ reinit_db_route(u)) =>
              /\ users' = SeedUsers
              /\ movies' = SeedMovies
              /\ reviews' = SeedReviews
              /\ \A k \in DOMAIN user_favorites' : user_favorites'[k] = 0
      ]_vars

\* C30: a movie update by an administrator, through the API or the web form,
\* changes at most the title and the year of that movie (director,
\* description and genre are not in the state): its rating, the set of
\* movies, every other movie, the reviews, the favourites and the users stay
\* as they were; an accepted update stores the title and the year sent.
C30_UpdateChangesOnlyTheMovie ==
    [][resp'.op \in {"MovieAPI_put", "edit_movie"} =>
          \A u \in DOMAIN users, m \in DOMAIN movies, i \in MovieInputs :
              (users[u].is_admin /\ (\/ MovieAPI_put(u, m, i[1], i[2])
                                     \/ edit_movie(u, m, i[1], i[2]))) =>
                  /\ DOMAIN movies' = DOMAIN movies
                  /\ movies'[m].rating = movies[m].rating
                  /\ \A x \in DOMAIN movies : x # m => movies'[x] = movies[x]
                  /\ UNCHANGED <<users, reviews, user_favorites>>
                  /\ (resp'.status = 200 /\ resp'.op = "MovieAPI_put") =>
                        (movies'[m].title = i[1] /\ movies'[m].year = i[2])
                  /\ resp'.flash = "success" =>
                        (movies'[m].title = i[1] /\ movies'[m].year = i[2])
      ]_vars

\* The seeded movie has been renamed through the API and keeps its rating,
\* its review and a favourite, next to a second movie.
C30_Witness ==
    /\ resp.op = "MovieAPI_put"
    /\ resp.status = 200
    /\ movies[1].title = "Alien"
    /\ movies[1].rating = 50
    /\ BagCardinality(ReviewsOf(reviews, 1)) = 1
    /\ is_favorite(user_favorites, 2, 1)
    /\ 2 \in DOMAIN movies

====
